---- MODULE Spec2Model ----
(***************************************************************************)
(* A model of src/src/interpretor.ts: the Lexer, the recursive-descent     *)
(* Parser, the AST, the ASTCalculatorVisitor and the ASTPrinterVisitor,    *)
(* driven by Intepretor.interpret(input, visitor).                         *)
(*                                                                         *)
(* Text is a TLA+ string; a character is a string of length 1.  The        *)
(* cursor is zero-based as in the source.  JavaScript's undefined (reading *)
(* text[cursor] past the end) and null (a token built without a value) are *)
(* both written as the empty string, which no character and no token value *)
(* of a NUMBER or ID token can be.                                         *)
(***************************************************************************)
EXTENDS Integers, Sequences, FiniteSets, TLC

VARIABLES text, visitor, tokens, advanceCalls, phase, lexCursor, currentToken,
          assignList, frames, scope, stack, output, error

vars == <<text, visitor, tokens, advanceCalls, phase, lexCursor, currentToken,
          assignList, frames, scope, stack, output, error>>

-----------------------------------------------------------------------------
(* Characters *)

undefined == ""

LowerLetters == "abcdefghijklmnopqrstuvwxyz"

UpperLetters == "ABCDEFGHIJKLMNOPQRSTUVWXYZ"

DigitChars == "0123456789"

CharsOf(s) == {SubSeq(s, k, k) : k \in 1..Len(s)}

IndexIn(s, c) == CHOOSE k \in 1..Len(s) : SubSeq(s, k, k) = c

\* String.prototype.toLowerCase on one character, and on a string.
lowerChar(c) ==
    IF c \in CharsOf(UpperLetters)
    THEN LET k == IndexIn(UpperLetters, c) IN SubSeq(LowerLetters, k, k)
    ELSE c

RECURSIVE toLowerCase(_)
toLowerCase(s) ==
    IF Len(s) = 0 THEN ""
    ELSE lowerChar(SubSeq(s, 1, 1)) \o toLowerCase(SubSeq(s, 2, Len(s)))

-----------------------------------------------------------------------------
(* Lexer *)

\* this.text[k] for a zero-based k: undefined past the end of the text.
charAt(txt, k) == IF k < Len(txt) THEN SubSeq(txt, k + 1, k + 1) ELSE undefined

\* /[\d\.]+?/.test(input); the text "undefined" holds no digit and no dot.
isNumber(input) == input \in CharsOf(DigitChars) \cup {"."}

\* The vertical tab (U+000B), the no-break space (U+00A0), the byte order
\* mark (U+FEFF) and the Ogham space mark (U+1680), written as themselves.
VerticalTab == ""

NoBreakSpace == " "

ByteOrderMark == "﻿"

OghamSpaceMark == " "

\* /\s+/.test(input): \s matches the newline and the carriage return as well
\* as the blanks.  It also matches U+2000 to U+200A, U+2028, U+2029, U+202F,
\* U+205F and U+3000, which a string of this module cannot hold; no text of
\* the model contains them.
isWhiteSpace(input) ==
    input \in {" ", "\t", "\n", "\r", "\f",
               VerticalTab, NoBreakSpace, ByteOrderMark, OghamSpaceMark}

\* input !== undefined && /[a-zA-Z][a-zA-Z0-9]*/.test(input), on one
\* character: true of a letter only.
isAlphaNumeric(input) ==
    input # undefined /\ input \in CharsOf(LowerLetters) \cup CharsOf(UpperLetters)

\* Lexer.read: the cursor after the longest run of characters, from cursor
\* on, that satisfy the predicate, and the run itself.
read(predicate(_), txt, cursor) ==
    LET stop == CHOOSE j \in cursor..Len(txt) :
                    /\ \A k \in cursor..(j - 1) : predicate(charAt(txt, k))
                    /\ ~predicate(charAt(txt, j))
    IN  [token |-> SubSeq(txt, cursor + 1, stop), cursor |-> stop]

readNumber(txt, cursor) == read(isNumber, txt, cursor)

readWhiteSpace(txt, cursor) == read(isWhiteSpace, txt, cursor)

readAlphaNumeric(txt, cursor) == read(isAlphaNumeric, txt, cursor)

Token(type, value) == [type |-> type, value |-> value]

NoError == [kind |-> "none"]

LexError(char, at) == [kind |-> "LexError", char |-> char, at |-> at]

\* The single-character tokens of nextToken's switch, with the value each
\* token is built with (RPAREN and COMMA are built without one).
SingleCharToken(char) ==
    CASE char = "\n" -> Token("EOL", "\n")
      [] char = ";"  -> Token("SEMICOLON", ";")
      [] char = "+"  -> Token("PLUS", char)
      [] char = "-"  -> Token("MINUS", char)
      [] char = "*"  -> Token("MULT", char)
      [] char = "/"  -> Token("DIVI", char)
      [] char = "^"  -> Token("POW", char)
      [] char = "!"  -> Token("FACTORIAL", char)
      [] char = "="  -> Token("ASSIGN", char)
      [] char = "("  -> Token("LPAREN", char)
      [] char = ")"  -> Token("RPAREN", undefined)
      [] char = ","  -> Token("COMMA", undefined)

SingleChars == {"\n", ";", "+", "-", "*", "/", "^", "!", "=", "(", ")", ","}

\* Lexer.nextToken: the token at the cursor, the cursor after it, and the
\* error thrown instead, if any.
RECURSIVE nextToken(_, _)
\* A lexer that steps over the end of the text as it reports it.
nextTokenAdvancingAtEnd(txt, cursor) ==
    LET char == charAt(txt, cursor) IN
    IF char = undefined
    THEN [token |-> Token("EOF", undefined), cursor |-> cursor + 1, error |-> NoError]
    ELSE IF char \in {"\t", VerticalTab, " ", "\f"}
    THEN nextToken(txt, readWhiteSpace(txt, cursor).cursor)
    ELSE IF char \in SingleChars
    THEN [token |-> SingleCharToken(char), cursor |-> cursor + 1, error |-> NoError]
    ELSE IF char \in CharsOf(DigitChars) \cup {"."}
    THEN LET r == readNumber(txt, cursor)
         IN  [token |-> Token("NUMBER", r.token), cursor |-> r.cursor, error |-> NoError]
    ELSE IF isAlphaNumeric(char)
    THEN LET r  == readAlphaNumeric(txt, cursor)
             lc == toLowerCase(r.token)
         IN  [token |-> IF lc = "e" THEN Token("ID", "e")
                        ELSE IF lc = "pi" THEN Token("ID", "pi")
                        ELSE Token("ID", r.token),
              cursor |-> r.cursor, error |-> NoError]
    ELSE [token |-> Token("EOF", undefined), cursor |-> cursor,
          error |-> LexError(char, cursor)]

nextToken(txt, cursor) ==
    LET char == charAt(txt, cursor) IN
    IF char \in {"\t", VerticalTab, " ", "\f"}
    THEN nextToken(txt, readWhiteSpace(txt, cursor).cursor)
    ELSE IF char \in SingleChars
    THEN [token |-> SingleCharToken(char), cursor |-> cursor + 1, error |-> NoError]
    ELSE IF char \in CharsOf(DigitChars) \cup {"."}
    THEN LET r == readNumber(txt, cursor)
         IN  [token |-> Token("NUMBER", r.token), cursor |-> r.cursor, error |-> NoError]
    ELSE IF isAlphaNumeric(char)
    THEN LET r  == readAlphaNumeric(txt, cursor)
             id == r.token
             lc == toLowerCase(id)
         IN  [token |-> IF lc = "e" THEN Token("ID", "e")
                        ELSE IF lc = "pi" THEN Token("ID", "pi")
                        ELSE Token("ID", id),
              cursor |-> r.cursor, error |-> NoError]
    ELSE IF char # undefined
    THEN [token |-> Token("EOF", undefined), cursor |-> cursor,
          error |-> LexError(char, cursor)]
    ELSE [token |-> Token("EOF", undefined), cursor |-> cursor, error |-> NoError]

-----------------------------------------------------------------------------
(* AST: one record per node class, its fields named as the constructor's *)

UnaryExpr(opToken, e) == [kind |-> "UnaryExpr", opToken |-> opToken, expr |-> e]

ValueExpr(num) == [kind |-> "ValueExpr", num |-> num]

RefExpr(constToken) == [kind |-> "RefExpr", constToken |-> constToken]

FactorialExpr(f) == [kind |-> "FactorialExpr", factor |-> f]

BinaryExpr(left, token, right) ==
    [kind |-> "BinaryExpr", left |-> left, token |-> token, right |-> right]

AssignExpr(id, e) == [kind |-> "AssignExpr", id |-> id, expr |-> e]

StatementListExpr(statements) ==
    [kind |-> "StatementListExpr", statements |-> statements]

\* The value of a local that is never read because an exception was thrown.
NoAST == [kind |-> "none"]

-----------------------------------------------------------------------------
(* Parser.  A parser state p holds the lexer's text and cursor, the        *)
(* parser's currentToken, and the exception thrown so far, if any; a       *)
(* parsing method returns the state it leaves and the node it returns.     *)

\* A call by value: the argument is evaluated once, before the body runs.
Call(argument, Body(_)) == CHOOSE result \in {Body(a) : a \in {argument}} : TRUE

ParserState(txt, cursor, token, err) ==
    [text |-> txt, lexCursor |-> cursor, currentToken |-> token, error |-> err]

Thrown(p) == p.error # NoError

\* Parser.error, as eat calls it: throw `Invalid syntax: Expect token
\* <expected> but got <actual>.`
SyntaxError(expected, actual) ==
    [kind |-> "SyntaxError", expected |-> expected, actual |-> actual]

\* The parser state after the lexer answered r to a call of nextToken: the
\* token is assigned unless the lexer threw.
tokenRead(p, r) ==
    IF r.error # NoError
    THEN ParserState(p.text, r.cursor, p.currentToken, r.error)
    ELSE ParserState(p.text, r.cursor, r.token, NoError)

\* this.currentToken = this.lexer.nextToken()
advanceToken(p) == tokenRead(p, nextToken(p.text, p.lexCursor))

\* new Parser(input)
newParser(input) ==
    advanceToken(ParserState(input, 0, Token("EOF", undefined), NoError))

\* A variant of eat that takes the next token whatever the current one is.
eatUnchecked(state, tokenType) ==
    Call(state, LAMBDA p : IF Thrown(p) THEN p ELSE advanceToken(p))

\* Parser.eat
eat(state, tokenType) ==
    Call(state, LAMBDA p :
        IF Thrown(p) THEN p
        ELSE IF p.currentToken.type = tokenType THEN advanceToken(p)
        ELSE ParserState(p.text, p.lexCursor, p.currentToken,
                         SyntaxError(tokenType, p.currentToken.type)))

\* A parsing method returns ast in state p, unless p holds an exception.
Returns(p, ast) == [p |-> p, ast |-> IF Thrown(p) THEN NoAST ELSE ast]

\* return new UnaryExpr(opToken, <r>), r the result of the call of factor
returnUnaryExpr(opToken, result) ==
    Call(result, LAMBDA r : Returns(r.p, UnaryExpr(opToken, r.ast)))

\* return new FactorialExpr(<r>)
returnFactorialExpr(result) ==
    Call(result, LAMBDA r : Returns(r.p, FactorialExpr(r.ast)))

\* return new BinaryExpr(left, token, <r>), r the result of the call that
\* parsed the right operand
returnBinaryExpr(left, token, result) ==
    Call(result, LAMBDA r : Returns(r.p, BinaryExpr(left, token, r.ast)))

\* Parser.const
const(p) == Returns(eat(p, "ID"), RefExpr(p.currentToken))

\* The end of Parser.closure, e the result of its call of expr.
closureEnd(result) == Call(result, LAMBDA e : Returns(eat(e.p, "RPAREN"), e.ast))

RECURSIVE expr(_), term(_), factor(_)

\* A variant of expr that groups a chain to the left, as the loop
\* term ((PLUS | MINUS) term)* would.
RECURSIVE exprLoop(_)
exprLoop(result) ==
    Call(result, LAMBDA t :
        IF Thrown(t.p) THEN t
        ELSE IF t.p.currentToken.type \in {"PLUS", "MINUS"}
        THEN exprLoop(returnBinaryExpr(t.ast, t.p.currentToken.type,
                                       term(eat(t.p, t.p.currentToken.type))))
        ELSE t)

exprLeftAssociative(state) ==
    Call(state, LAMBDA p :
        IF Thrown(p) THEN Returns(p, NoAST) ELSE exprLoop(term(p)))

\* A variant of term that groups a chain to the left, as the loop
\* factor ((MUL | DIV | POW) factor)* would.
RECURSIVE termLoop(_)
termLoop(result) ==
    Call(result, LAMBDA f :
        IF Thrown(f.p) THEN f
        ELSE IF f.p.currentToken.type \in {"MULT", "DIVI", "POW"}
        THEN termLoop(returnBinaryExpr(f.ast, f.p.currentToken.type,
                                       factor(eat(f.p, f.p.currentToken.type))))
        ELSE f)

termLeftAssociative(state) ==
    Call(state, LAMBDA p :
        IF Thrown(p) THEN Returns(p, NoAST) ELSE termLoop(factor(p)))

\* Parser.closure
closure(p) == closureEnd(expr(eat(p, "LPAREN")))

\* Parser.factor
factor(state) ==
    Call(state, LAMBDA p :
        IF Thrown(p) THEN Returns(p, NoAST)
        ELSE IF p.currentToken.type \in {"PLUS", "MINUS"}
        THEN returnUnaryExpr(p.currentToken.type, factor(eat(p, p.currentToken.type)))
        ELSE IF p.currentToken.type = "FACTORIAL"
        THEN returnFactorialExpr(factor(eat(p, "FACTORIAL")))
        ELSE IF p.currentToken.type = "LPAREN" THEN closure(p)
        ELSE IF p.currentToken.type = "ID" THEN const(p)
        ELSE Returns(eat(p, "NUMBER"), ValueExpr(p.currentToken.value)))

\* A variant of termRest that multiplies implicitly only after a literal.
termRestAfterLiteral(result) ==
    Call(result, LAMBDA f :
        IF Thrown(f.p) THEN f
        ELSE IF f.p.currentToken.type = "NUMBER" /\ f.ast.kind = "ValueExpr"
        THEN returnBinaryExpr(f.ast, "MULT", term(f.p))
        ELSE IF f.p.currentToken.type \in {"MULT", "DIVI", "POW"}
        THEN returnBinaryExpr(f.ast, f.p.currentToken.type,
                              term(eat(f.p, f.p.currentToken.type)))
        ELSE f)

\* Parser.term after its call of factor returned f.
termRest(result) ==
    Call(result, LAMBDA f :
        IF Thrown(f.p) THEN f
        ELSE IF f.p.currentToken.type = "NUMBER"
        THEN returnBinaryExpr(f.ast, "MULT", term(f.p))
        ELSE IF f.p.currentToken.type \in {"MULT", "DIVI", "POW"}
        THEN returnBinaryExpr(f.ast, f.p.currentToken.type,
                              term(eat(f.p, f.p.currentToken.type)))
        ELSE f)

\* Parser.term
term(state) ==
    Call(state, LAMBDA p :
        IF Thrown(p) THEN Returns(p, NoAST) ELSE termRest(factor(p)))

\* Parser.expr after its call of term returned t.
exprRest(result) ==
    Call(result, LAMBDA t :
        IF Thrown(t.p) THEN t
        ELSE IF t.p.currentToken.type \in {"PLUS", "MINUS"}
        THEN returnBinaryExpr(t.ast, t.p.currentToken.type,
                              expr(eat(t.p, t.p.currentToken.type)))
        ELSE t)

\* Parser.expr
expr(state) ==
    Call(state, LAMBDA p :
        IF Thrown(p) THEN Returns(p, NoAST) ELSE exprRest(term(p)))

\* The end of an iteration of the while loop of Parser.declarations, e the
\* result of its call of expr: the assignment is pushed and then the
\* separator after it, if there is one, is eaten.  The assignment is the
\* node of the result even when eating the separator throws, for it was
\* pushed before.
declarationEnd(id, result) ==
    Call(result, LAMBDA e :
        IF Thrown(e.p) THEN e
        ELSE IF e.p.currentToken.type \in {"EOL", "SEMICOLON"}
        THEN [p |-> eat(e.p, e.p.currentToken.type), ast |-> AssignExpr(id, e.ast)]
        ELSE Returns(e.p, AssignExpr(id, e.ast)))

\* One iteration of the while loop of Parser.declarations.
declaration(p) == declarationEnd(p.currentToken, expr(eat(eat(p, "ID"), "ASSIGN")))

-----------------------------------------------------------------------------
(* JavaScript values.  A number is an IEEE 754 double; its arithmetic is   *)
(* computed on natural numbers of any length and rounded to nearest, ties  *)
(* to even, as the language defines + - * / and Number().  Math.pow is     *)
(* defined by the language for its special cases only and is otherwise     *)
(* left to the implementation, which returns a double next to the power:   *)
(* pow is the set of the values it may return.  undefined, a function      *)
(* object (an inherited property of Object.prototype) and a string are the *)
(* values that are not numbers.  Untracked stands for a number that the    *)
(* model does not follow: the counter and the product of a factorial loop  *)
(* that never ends, past MaxCounter.                                       *)

Untracked == [k |-> "untracked"]

Undefined == [k |-> "undefined"]

FunctionObject == [k |-> "function"]

StringValue == [k |-> "string"]

\* A natural number of any size is a sequence of limbs, the least
\* significant first and the last one not 0; the empty sequence is 0.
LimbBits == 15

Base == 2 ^ LimbBits

natTrim(a0) ==
    Call(a0, LAMBDA a :
        LET used == {i \in 1..Len(a) : a[i] # 0}
        IN  IF used = {} THEN <<>>
            ELSE SubSeq(a, 1, CHOOSE i \in used : \A j \in used : j <= i))

limb(a, i) == IF i <= Len(a) THEN a[i] ELSE 0

RECURSIVE natOfInt(_)
natOfInt(n) == IF n = 0 THEN <<>> ELSE <<n % Base>> \o natOfInt(n \div Base)

\* The number of bits of a limb, and of a natural number.
bitsOfLimb(x) == CHOOSE k \in 0..LimbBits : x < 2 ^ k /\ (k > 0 => x >= 2 ^ (k - 1))

natBits(a0) ==
    Call(a0, LAMBDA a :
        IF Len(a) = 0 THEN 0 ELSE LimbBits * (Len(a) - 1) + bitsOfLimb(a[Len(a)]))

\* -1, 0 or 1 as a is less than, equal to or greater than b.
natCompare(a0, b0) ==
    Call(<<a0, b0>>, LAMBDA p :
        LET a == p[1]
            b == p[2]
            differ == {i \in 1..Len(a) : a[i] # b[i]}
        IN  IF Len(a) # Len(b) THEN (IF Len(a) < Len(b) THEN -1 ELSE 1)
            ELSE IF differ = {} THEN 0
            ELSE LET top == CHOOSE i \in differ : \A j \in differ : j <= i
                 IN  IF a[top] < b[top] THEN -1 ELSE 1)

\* a + b, limb by limb: a carry enters limb i when a limb below it
\* overflows and every limb between passes the carry on.  The operands need
\* not be trimmed.
natAdd(a0, b0) ==
    Call(<<a0, b0>>, LAMBDA p :
        LET a == p[1]
            b == p[2]
            n == IF Len(a) > Len(b) THEN Len(a) ELSE Len(b)
            sum(i) == limb(a, i) + limb(b, i)
            carry(i) == IF \E j \in 1..(i - 1) :
                               sum(j) >= Base /\ \A k \in (j + 1)..(i - 1) : sum(k) >= Base - 1
                        THEN 1 ELSE 0
        IN  natTrim([i \in 1..(n + 1) |-> (sum(i) + carry(i)) % Base]))

\* a - b for a >= b
natSub(a0, b0) ==
    Call(<<a0, b0>>, LAMBDA p :
        LET a == p[1]
            b == p[2]
            diff(i) == limb(a, i) - limb(b, i)
            borrow(i) == IF \E j \in 1..(i - 1) :
                                diff(j) < 0 /\ \A k \in (j + 1)..(i - 1) : diff(k) <= 0
                         THEN 1 ELSE 0
        IN  natTrim([i \in 1..Len(a) |-> (diff(i) - borrow(i) + Base) % Base]))

\* a * k + c for limb-sized k and c
natScale(a0, k, c) ==
    Call(a0, LAMBDA a :
        natAdd(natAdd([i \in 1..Len(a) |-> (a[i] * k) % Base], <<c>>),
               [i \in 1..(Len(a) + 1) |-> IF i = 1 THEN 0 ELSE (a[i - 1] * k) \div Base]))

natShiftLimbs(a0, n) ==
    Call(a0, LAMBDA a : IF Len(a) = 0 THEN <<>> ELSE [i \in 1..n |-> 0] \o a)

\* a times the limbs from..to of b, each at its place
RECURSIVE natMulRange(_, _, _, _)
natMulRange(a, b, from, to) ==
    IF from > to THEN <<>>
    ELSE IF from = to THEN natShiftLimbs(natScale(a, b[from], 0), from - 1)
    ELSE natAdd(natMulRange(a, b, from, (from + to) \div 2),
                natMulRange(a, b, (from + to) \div 2 + 1, to))

natMul(a0, b0) == Call(<<a0, b0>>, LAMBDA p : natMulRange(p[1], p[2], 1, Len(p[2])))

\* a * 2^n
natShiftLeft(a0, n) ==
    Call(a0, LAMBDA a :
        natShiftLimbs(natScale(a, 2 ^ (n % LimbBits), 0), n \div LimbBits))

\* The integer part of a / 2^n
natShiftRight(a0, n) ==
    Call(a0, LAMBDA a :
        LET limbs == n \div LimbBits
            bits  == n % LimbBits
        IN  IF limbs >= Len(a) THEN <<>>
            ELSE natTrim([i \in 1..(Len(a) - limbs) |->
                            (a[i + limbs] \div 2 ^ bits)
                            + (limb(a, i + limbs + 1) % 2 ^ bits) * 2 ^ (LimbBits - bits)]))

\* a modulo 2^n
natLowBits(a0, n) ==
    Call(a0, LAMBDA a :
        LET limbs == n \div LimbBits
            bits  == n % LimbBits
        IN  IF limbs >= Len(a) THEN a
            ELSE natTrim(SubSeq(a, 1, limbs) \o <<a[limbs + 1] % 2 ^ bits>>))

natBit(a, n) == (limb(a, n \div LimbBits + 1) \div 2 ^ (n % LimbBits)) % 2

natIsOdd(a) == Len(a) > 0 /\ a[1] % 2 = 1

\* The number of 0 bits below the lowest 1 bit of a, for a > 0.
natTrailingZeros(a0) ==
    Call(a0, LAMBDA a :
        LET first == CHOOSE i \in 1..Len(a) : a[i] # 0 /\ \A j \in 1..(i - 1) : a[j] = 0
            bits  == CHOOSE k \in 0..LimbBits :
                        /\ a[first] % 2 ^ k = 0
                        /\ a[first] % 2 ^ (k + 1) # 0
        IN  LimbBits * (first - 1) + bits)

\* The limbs of a from limb n up: the integer part of a / Base^n.
natDropLimbs(a, n) == IF n >= Len(a) THEN <<>> ELSE SubSeq(a, n + 1, Len(a))

\* The integer part of r / d for r < d * Base, where the top limb of d is
\* at least Base / 2: the quotient of the leading limbs is the digit or
\* exceeds it by at most 2.
natDigit(r0, d0) ==
    Call(<<r0, d0>>, LAMBDA p :
        LET r == p[1]
            d == p[2]
            guess == (limb(r, Len(d) + 1) * Base + limb(r, Len(d))) \div d[Len(d)]
            most  == IF guess >= Base THEN Base - 1 ELSE guess
        IN  CHOOSE q \in (most - 2)..most :
                /\ q >= 0
                /\ natCompare(natScale(d, q, 0), r) <= 0
                /\ natCompare(natScale(d, q + 1, 0), r) > 0)

\* The quotient and the remainder of a by d, limb by limb from limb i of a
\* down, qr the quotient and the remainder of the limbs above i.
RECURSIVE natDivideFrom(_, _, _, _)
natDivideFrom(a, d, i, qr0) ==
    Call(qr0, LAMBDA qr :
        IF i < 1 THEN qr
        ELSE natDivideFrom(a, d, i - 1,
                 Call(natTrim(<<a[i]>> \o qr.r), LAMBDA r :
                     Call(natDigit(r, d), LAMBDA q :
                         [q |-> natTrim(<<q>> \o qr.q),
                          r |-> natSub(r, natScale(d, q, 0))]))))

\* The quotient of a by d > 0, and whether the division leaves a remainder.
\* Both are shifted to bring the top limb of d to Base / 2 or more; the
\* limbs of a above the length of d give no digit and start the remainder.
natDivide(a0, d0) ==
    Call(<<a0, d0>>, LAMBDA p :
        LET norm == LimbBits - bitsOfLimb(p[2][Len(p[2])])
        IN  Call(<<natShiftLeft(p[1], norm), natShiftLeft(p[2], norm)>>, LAMBDA n :
                LET a == n[1]
                    d == n[2]
                    skip == IF Len(a) >= Len(d) THEN Len(a) - Len(d) + 1 ELSE Len(a)
                IN  natDivideFrom(a, d, skip,
                        [q |-> <<>>, r |-> natDropLimbs(a, skip)])))

RECURSIVE natPower(_, _)
natPower(a, n) ==
    IF n = 0 THEN <<1>>
    ELSE IF n % 2 = 1 THEN natMul(a, natPower(a, n - 1))
    ELSE Call(natPower(a, n \div 2), LAMBDA h : natMul(h, h))

-----------------------------------------------------------------------------
\* A JavaScript number is an IEEE 754 double: a NaN, an infinity, or the
\* finite number s * m * 2^e with s the sign, m a natural number below 2^53
\* that is odd or 0, and e the exponent (0 when m is 0).
Precision == 53

MinExponent == -1074

MaxBits == 1024

Fin(s, m, e) == [k |-> "fin", s |-> s, m |-> m, e |-> e]

Infinity(s) == [k |-> "inf", s |-> s]

NaN == [k |-> "nan"]

Zero(s) == Fin(s, <<>>, 0)

\* The double s * m * 2^e for m within the precision: m made odd.
Canonical(s, m0, e) ==
    Call(m0, LAMBDA m :
        IF Len(m) = 0 THEN Zero(s)
        ELSE Fin(s, natShiftRight(m, natTrailingZeros(m)), e + natTrailingZeros(m)))

\* The double nearest to s * (m + f) * 2^e, ties to the even mantissa, where
\* f is 0, or some fraction strictly between 0 and 1 if `more` (and then m
\* has at least two bits more than the precision).
Round(s, m0, e, more) ==
    Call(m0, LAMBDA m :
        LET lowest == IF e + natBits(m) - Precision > MinExponent
                      THEN e + natBits(m) - Precision ELSE MinExponent
            drop   == lowest - e
        IN  IF drop <= 0
            THEN (IF natBits(m) + e > MaxBits THEN Infinity(s) ELSE Canonical(s, m, e))
            ELSE Call(<<natShiftRight(m, drop), natLowBits(m, drop),
                        natShiftLeft(<<1>>, drop - 1)>>, LAMBDA p :
                     LET kept == p[1]
                         half == natCompare(p[2], p[3])
                         up   == half > 0 \/ (half = 0 /\ (more \/ natIsOdd(kept)))
                     IN  Call(IF up THEN natAdd(kept, <<1>>) ELSE kept, LAMBDA r :
                             IF natBits(r) + lowest > MaxBits THEN Infinity(s)
                             ELSE Canonical(s, r, lowest))))


\* The double s * (n / d) * 2^e rounded once, for natural numbers n and
\* d > 0.  The numerator is brought to Precision + 3 bits more than the
\* denominator: shifted left, or cut on the right with the bits cut off
\* remembered as a remainder.
Quotient(s, n0, d0, e) ==
    Call(<<n0, d0>>, LAMBDA p :
        LET n == p[1]
            d == p[2]
            shift == Precision + 3 + natBits(d) - natBits(n)
            cut == IF shift < 0 THEN natLowBits(n, -shift) ELSE <<>>
        IN  IF Len(n) = 0 THEN Zero(s)
            ELSE Call(natDivide(IF shift >= 0 THEN natShiftLeft(n, shift)
                                ELSE natShiftRight(n, -shift), d), LAMBDA qr :
                     Round(s, qr.q, e - shift, Len(qr.r) > 0 \/ Len(cut) > 0)))

Integer(n) == IF n < 0 THEN Canonical(-1, natOfInt(-n), 0) ELSE Canonical(1, natOfInt(n), 0)

IsZero(a) == a.k = "fin" /\ Len(a.m) = 0

\* -a
neg(a0) ==
    Call(a0, LAMBDA a :
        IF a.k = "fin" THEN Fin(-a.s, a.m, a.e)
        ELSE IF a.k = "inf" THEN Infinity(-a.s)
        ELSE a)

\* The mantissas of two finite numbers over their lower exponent.
Aligned(a, b) ==
    LET e == IF a.e < b.e THEN a.e ELSE b.e
    IN  [a |-> natShiftLeft(a.m, a.e - e), b |-> natShiftLeft(b.m, b.e - e), e |-> e]

\* -1, 0 or 1 as the finite a is less than, equal to or greater than the
\* finite b; the two zeros are equal.
Compare(a0, b0) ==
    Call(<<a0, b0>>, LAMBDA p :
        LET a == p[1]
            b == p[2]
        IN  IF IsZero(a) /\ IsZero(b) THEN 0
            ELSE IF IsZero(a) THEN -b.s
            ELSE IF IsZero(b) THEN a.s
            ELSE IF a.s # b.s THEN a.s
            ELSE Call(Aligned(a, b), LAMBDA al : a.s * natCompare(al.a, al.b)))

\* The place above the top bit of a finite number other than 0.
topBit(a) == a.e + natBits(a.m)

\* The double nearest to a finite number a moved towards 0, or away from
\* it, by less than 2^(topBit(a) - Precision - 4).
Nudged(a, towardsZero) ==
    LET shift == Precision + 3 - natBits(a.m)
        m     == natShiftLeft(a.m, shift)
    IN  Round(a.s, IF towardsZero THEN natSub(m, <<1>>) ELSE m, a.e - shift, TRUE)

\* a + b on numbers
add(a0, b0) ==
    Call(<<a0, b0>>, LAMBDA p :
        LET a == p[1]
            b == p[2]
        IN  IF a.k = "nan" \/ b.k = "nan" THEN NaN
            ELSE IF a.k = "untracked" \/ b.k = "untracked" THEN Untracked
            ELSE IF a.k = "inf" /\ b.k = "inf" THEN (IF a.s = b.s THEN a ELSE NaN)
            ELSE IF a.k = "inf" THEN a
            ELSE IF b.k = "inf" THEN b
            ELSE IF IsZero(a) /\ IsZero(b) THEN Zero(IF a.s = -1 /\ b.s = -1 THEN -1 ELSE 1)
            ELSE IF IsZero(a) THEN b
            ELSE IF IsZero(b) THEN a
            ELSE IF topBit(a) - topBit(b) > Precision + 3 THEN Nudged(a, a.s # b.s)
            ELSE IF topBit(b) - topBit(a) > Precision + 3 THEN Nudged(b, a.s # b.s)
            ELSE Call(Aligned(a, b), LAMBDA al :
                     IF a.s = b.s THEN Round(a.s, natAdd(al.a, al.b), al.e, FALSE)
                     ELSE IF natCompare(al.a, al.b) = 0 THEN Zero(1)
                     ELSE IF natCompare(al.a, al.b) > 0
                     THEN Round(a.s, natSub(al.a, al.b), al.e, FALSE)
                     ELSE Round(b.s, natSub(al.b, al.a), al.e, FALSE)))

\* a - b on numbers
sub(a, b) == add(a, neg(b))

\* a * b on numbers
mul(a0, b0) ==
    Call(<<a0, b0>>, LAMBDA p :
        LET a == p[1]
            b == p[2]
        IN  IF a.k = "nan" \/ b.k = "nan" THEN NaN
            ELSE IF (a.k = "inf" /\ IsZero(b)) \/ (IsZero(a) /\ b.k = "inf") THEN NaN
            ELSE IF a.k = "untracked" \/ b.k = "untracked" THEN Untracked
            ELSE IF a.k = "inf" \/ b.k = "inf" THEN Infinity(a.s * b.s)
            ELSE IF IsZero(a) \/ IsZero(b) THEN Zero(a.s * b.s)
            ELSE Round(a.s * b.s, natMul(a.m, b.m), a.e + b.e, FALSE))

\* a / b on numbers
div(a0, b0) ==
    Call(<<a0, b0>>, LAMBDA p :
        LET a == p[1]
            b == p[2]
        IN  IF a.k = "nan" \/ b.k = "nan" THEN NaN
            ELSE IF (a.k = "inf" /\ b.k = "inf") \/ (IsZero(a) /\ IsZero(b)) THEN NaN
            ELSE IF a.k = "untracked" \/ b.k = "untracked" THEN Untracked
            ELSE IF a.k = "inf" THEN Infinity(a.s * b.s)
            ELSE IF b.k = "inf" THEN Zero(a.s * b.s)
            ELSE IF IsZero(b) THEN Infinity(a.s * b.s)
            ELSE Quotient(a.s * b.s, a.m, b.m, a.e - b.e))

\* a <= b on numbers; every comparison with NaN is false.
lessOrEqual(a0, b0) ==
    Call(<<a0, b0>>, LAMBDA p :
        LET a == p[1]
            b == p[2]
        IN  IF a.k = "nan" \/ b.k = "nan" THEN FALSE
            ELSE IF b.k = "inf" THEN b.s = 1 \/ (a.k = "inf" /\ a.s = -1)
            ELSE IF a.k = "inf" THEN a.s = -1
            ELSE Compare(a, b) <= 0)

IsInteger(a) == a.k = "fin" /\ a.e >= 0

IsOddInteger(a) == a.k = "fin" /\ a.e = 0 /\ Len(a.m) > 0

tenTo(n) == natPower(<<10>>, n)

\* The digits of a string as a natural number: those of its first half
\* times the power of ten of the second half, plus those of the second.
RECURSIVE digitsValue(_)
digitsValue(str) ==
    IF Len(str) = 0 THEN <<>>
    ELSE IF Len(str) = 1 THEN natOfInt(IndexIn(DigitChars, str) - 1)
    ELSE LET half == Len(str) \div 2
         IN  natAdd(natMul(digitsValue(SubSeq(str, 1, half)), tenTo(Len(str) - half)),
                    digitsValue(SubSeq(str, half + 1, Len(str))))

\* Number(str) for the text of a NUMBER token, a run of digits and dots: NaN
\* when it holds two dots or no digit, and otherwise the double nearest to
\* the decimal numeral.
Number(str) ==
    LET dots == {k \in 1..Len(str) : SubSeq(str, k, k) = "."} IN
    IF Cardinality(dots) > 1 \/ Cardinality(dots) = Len(str) THEN NaN
    ELSE IF dots = {} THEN Round(1, digitsValue(str), 0, FALSE)
    ELSE LET dot  == CHOOSE k \in dots : TRUE
             frac == SubSeq(str, dot + 1, Len(str))
         IN  Quotient(1, digitsValue(SubSeq(str, 1, dot - 1) \o frac), tenTo(Len(frac)), 0)

\* The double next to s * (m + f) * 2^e towards zero, or away from zero if
\* `up`, where f is 0, or some fraction strictly between 0 and 1 if `more`:
\* the number itself when it is a double.  A number below 2^-1075 in size
\* is 0 and one of 2^1024 or more is an infinity, as for Round.
RoundTo(up, s, m0, e0, more) ==
    Call(natShiftLeft(m0, Precision + 2), LAMBDA m :
        LET e      == e0 - (Precision + 2)
            lowest == IF e + natBits(m) - Precision > MinExponent
                      THEN e + natBits(m) - Precision ELSE MinExponent
            drop   == lowest - e
        IN  IF Len(m) = 0 \/ natBits(m) + e < MinExponent THEN Zero(s)
            ELSE Call(<<natShiftRight(m, drop), natLowBits(m, drop)>>, LAMBDA p :
                     Call(IF up /\ (more \/ Len(p[2]) > 0)
                          THEN natAdd(p[1], <<1>>) ELSE p[1], LAMBDA r :
                         IF natBits(r) + lowest > MaxBits THEN Infinity(s)
                         ELSE Canonical(s, r, lowest))))

\* The double next to s * (n / d) * 2^e towards zero, or away from it.
QuotientTo(up, s, n0, d0, e) ==
    Call(<<n0, d0>>, LAMBDA p :
        LET n == p[1]
            d == p[2]
            shift == Precision + 3 + natBits(d) - natBits(n)
            cut == IF shift < 0 THEN natLowBits(n, -shift) ELSE <<>>
        IN  IF Len(n) = 0 THEN Zero(s)
            ELSE Call(natDivide(IF shift >= 0 THEN natShiftLeft(n, shift)
                                ELSE natShiftRight(n, -shift), d), LAMBDA qr :
                     RoundTo(up, s, qr.q, e - shift, Len(qr.r) > 0 \/ Len(cut) > 0)))

-----------------------------------------------------------------------------
(* Math.pow.  The language fixes its value in the special cases and leaves *)
(* it to the implementation otherwise; an implementation returns a double  *)
(* next to the power, not always the nearest.  pow is therefore the set of *)
(* the values Math.pow may return: one value in the special cases and when *)
(* the power is a double, and otherwise the doubles on either side of the  *)
(* power.  A power that is not a double is found exactly when it is an     *)
(* integer power of at most MaxPowerBits bits, and else from its logarithm *)
(* computed to FixedLimbs limbs after the point.                           *)

MaxPowerBits == 1100

FixedLimbs == 7

LogTerms == 20

ExpTerms == 16

FixedBits == LimbBits * FixedLimbs

\* The integer part of ln 2 * Base^12.
Ln2 == <<10635, 25806, 15568, 22432, 29430, 12295, 3790, 24143, 30618, 31289, 1533, 22713>>

\* A number x >= 0 with FixedLimbs limbs after the point is the natural
\* number x * Base^FixedLimbs, cut to an integer.
fixedOne == natShiftLimbs(<<1>>, FixedLimbs)

fixedLn2 == natDropLimbs(Ln2, Len(Ln2) - FixedLimbs)

fixedMul(x, y) == natDropLimbs(natMul(x, y), FixedLimbs)

fixedOver(x, d) == natDivide(x, natOfInt(d)).q

\* The value of a natural number of at most two limbs.
intOfNat(m) == limb(m, 1) + limb(m, 2) * Base

\* 1/(2j+1) + w/(2j+3) + ... : the terms j to j + count - 1 of atanh(z) / z
\* for w = z^2, divided by w^j.
RECURSIVE atanhTerms(_, _, _)
atanhTerms(w, j, count) ==
    natAdd(fixedOver(fixedOne, 2 * j + 1),
           IF count = 1 THEN <<>> ELSE fixedMul(w, atanhTerms(w, j + 1, count - 1)))

\* The terms of atanh(z) / z from term j on, divided by w^j, given those
\* from term j + 4 on as `rest`; w4 is w^4.
RECURSIVE atanhSeries(_, _, _, _)
atanhSeries(w, w4, j, rest) ==
    Call(natAdd(atanhTerms(w, j, 4), fixedMul(w4, rest)), LAMBDA sum :
        IF j = 0 THEN sum ELSE atanhSeries(w, w4, j - 4, sum))

\* atanh(z) / z for w = z^2, to LogTerms terms at least.
atanhOver(w0) ==
    Call(w0, LAMBDA w :
        Call(fixedMul(fixedMul(w, w), fixedMul(w, w)), LAMBDA w4 :
            atanhSeries(w, w4, 4 * ((LogTerms - 1) \div 4), <<>>)))

\* 1 + r/j * (1 + r/(j+1) * (... (1 + r/(j+count-1) * rest))): the terms of
\* exp(r) from term j - 1 on, divided by r^(j-1)/(j-1)!, given those from
\* term j + count - 1 on as `rest`.
RECURSIVE expTerms(_, _, _, _)
expTerms(r, j, count, rest) ==
    natAdd(fixedOne,
           fixedOver(fixedMul(r, IF count = 1 THEN rest
                                 ELSE expTerms(r, j + 1, count - 1, rest)), j))

RECURSIVE expSeries(_, _, _)
expSeries(r, j, rest) ==
    Call(expTerms(r, j, 4, rest), LAMBDA sum :
        IF j = 1 THEN sum ELSE expSeries(r, j - 4, sum))

\* exp(r) for 0 <= r < 1, to ExpTerms terms at least.
expOf(r0) == Call(r0, LAMBDA r : expSeries(r, 4 * ((ExpTerms - 1) \div 4) + 1, fixedOne))

\* The natural logarithm of |a| for a finite a other than 0, 1 and -1, as
\* the number s * m * 2^e with about FixedBits significant bits.  |a| is
\* x * 2^E with x between the square roots of 1/2 and 2, and ln x is
\* 2 * atanh(z) for z = (x - 1) / (x + 1).
logOf(a0) ==
    Call(a0, LAMBDA a :
        LET bits  == natBits(a.m)
            big   == natCompare(natMul(a.m, a.m), natShiftLeft(<<1>>, 2 * bits - 1)) > 0
            sh    == IF big THEN bits ELSE bits - 1
            E     == a.e + sh
            size  == IF E < 0 THEN -E ELSE E
            unit  == natShiftLeft(<<1>>, sh)
            above == natCompare(a.m, unit) > 0
            whole == natScale(fixedLn2, size, 0)
        IN  IF a.m = unit
            THEN [s |-> IF E < 0 THEN -1 ELSE 1, m |-> whole, e |-> -FixedBits]
            ELSE Call(<<IF above THEN natSub(a.m, unit) ELSE natSub(unit, a.m),
                        natAdd(a.m, unit)>>, LAMBDA nd :
                   LET G == FixedBits + natBits(nd[2]) - natBits(nd[1])
                   IN  Call(natDivide(natShiftLeft(nd[1], G), nd[2]).q, LAMBDA z :
                       Call(natShiftLeft(natMul(z, atanhOver(
                                natShiftRight(natMul(z, z), 2 * G - FixedBits))), 1),
                            LAMBDA lx :
                           IF E = 0
                           THEN [s |-> IF above THEN 1 ELSE -1, m |-> lx,
                                 e |-> -G - FixedBits]
                           ELSE [s |-> IF E < 0 THEN -1 ELSE 1,
                                 m |-> IF above = (E > 0)
                                       THEN natAdd(whole, natShiftRight(lx, G))
                                       ELSE natSub(whole, natShiftRight(lx, G)),
                                 e |-> -FixedBits]))))

\* The doubles next to s * 2^k * exp(r) for 0 <= r < ln 2, where k * ln 2 + r
\* is known to within `slack` and is less than 2^11 in size: exp(r) is the
\* 8th power of exp(r / 8), and the error of the series and of the cut
\* products is less than 2^-(Precision + 39).
nearTwoTo(s, k, r0, slack0) ==
    Call(expOf(natShiftRight(r0, 3)), LAMBDA t1 :
    Call(fixedMul(t1, t1), LAMBDA t2 :
    Call(fixedMul(t2, t2), LAMBDA t4 :
    Call(fixedMul(t4, t4), LAMBDA t8 :
    Call(natAdd(natShiftLeft(slack0, 1),
                natShiftLeft(<<1>>, FixedBits - Precision - 39)), LAMBDA slack :
        {RoundTo(FALSE, s, natSub(t8, slack), k - FixedBits, TRUE),
         Round(s, t8, k - FixedBits, TRUE),
         RoundTo(TRUE, s, natAdd(t8, slack), k - FixedBits, TRUE)})))))

\* The doubles next to s * |a|^b for a finite a other than 0, 1 and -1 and
\* a finite b other than 0, when the power is no double: the power is
\* exp(u) for u = b * ln|a|, and u is k * ln 2 + r.
nearPower(s, a, b) ==
    IF topBit(b) > 11 /\ (topBit(a) > 1 \/ topBit(a) < 0 \/ (topBit(a) = 0 /\ a.m = <<1>>))
    THEN {IF (topBit(a) > 1) = (b.s = 1) THEN Infinity(s) ELSE Zero(s)}
    ELSE
    Call(logOf(a), LAMBDA l :
    Call(natMul(b.m, l.m), LAMBDA um :
        LET ue  == b.e + l.e
            us  == b.s * l.s
            top == natBits(um) + ue
        IN  IF top > 11 THEN {IF us > 0 THEN Infinity(s) ELSE Zero(s)}
            ELSE IF top < -(Precision + 10)
            THEN (IF us > 0
                  THEN {Fin(s, <<1>>, 0), RoundTo(TRUE, s, <<1>>, 0, TRUE)}
                  ELSE {RoundTo(FALSE, s, natSub(natShiftLeft(<<1>>, Precision + 7), <<1>>),
                                -(Precision + 7), TRUE),
                        Fin(s, <<1>>, 0)})
            ELSE Call(IF ue + FixedBits >= 0 THEN natShiftLeft(um, ue + FixedBits)
                      ELSE natShiftRight(um, -(ue + FixedBits)), LAMBDA u :
                 Call(natDivide(u, fixedLn2).q, LAMBDA q :
                 Call(natSub(u, natMul(q, fixedLn2)), LAMBDA rest :
                     LET slack == natShiftLeft(<<1>>,
                                      FixedBits - Precision - 36 + (IF top > 0 THEN top ELSE 0))
                         below == us < 0 /\ Len(rest) > 0
                     IN  nearTwoTo(s, IF us > 0 THEN intOfNat(q)
                                      ELSE IF below THEN -(intOfNat(q) + 1)
                                      ELSE -intOfNat(q),
                                   IF below THEN natSub(fixedLn2, rest) ELSE rest,
                                   slack))))))

\* The doubles next to s * |a|^n for a finite a other than 0, 1 and -1 and
\* an integer n other than 0 of size MaxPowerBits at most, from the exact
\* power.  Below, 2^low <= |a| < 2^high.
integerPower(s, a, n) ==
    LET bits == natBits(a.m)
        low  == a.e + bits - 1
        high == a.e + bits
        size == IF n < 0 THEN -n ELSE n
    IN  IF n > 0 /\ low * n >= MaxBits THEN {Infinity(s)}
        ELSE IF n > 0 /\ high * n <= MinExponent - 1 THEN {Zero(s)}
        ELSE IF n < 0 /\ high * n >= MaxBits THEN {Infinity(s)}
        ELSE IF n < 0 /\ low * n < MinExponent - 1 THEN {Zero(s)}
        ELSE Call(natPower(a.m, size), LAMBDA power :
                 IF n > 0 THEN {RoundTo(up, s, power, a.e * n, FALSE) : up \in BOOLEAN}
                 ELSE {QuotientTo(up, s, <<1>>, power, a.e * n) : up \in BOOLEAN})

\* The doubles next to s * |a|^b for a finite a other than 0, 1 and -1 and
\* a finite b other than 0: from the exact power when b is an integer and
\* the power has MaxPowerBits bits at most.
finitePower(s, a, b) ==
    LET n == intOfNat(natShiftLeft(b.m, b.e)) IN
    IF /\ IsInteger(b)
       /\ topBit(b) <= 2 * LimbBits
       /\ n <= MaxPowerBits
       /\ natBits(a.m) * n <= MaxPowerBits
    THEN integerPower(s, a, b.s * n)
    ELSE nearPower(s, a, b)

natSquare(n) == natMul(natOfInt(n), natOfInt(n))

\* The integer part of the square root of m < 2^54: three bits of the root
\* at a time from bit i down, r the bits above.
RECURSIVE natRootFrom(_, _, _)
natRootFrom(m, r, i) ==
    IF i < 0 THEN r
    ELSE Call(CHOOSE d \in 0..7 :
                  \A other \in 0..7 :
                      (other <= d) = (natCompare(natSquare(r + other * 2 ^ i), m) <= 0),
              LAMBDA d : natRootFrom(m, r + d * 2 ^ i, i - 3))

\* The 2^k-th root of m * 2^e for an odd m, when it is a double.
RECURSIVE exactRoot(_, _, _)
exactRoot(m, e, k) ==
    IF k = 0 THEN [found |-> TRUE, m |-> m, e |-> e]
    ELSE IF e % 2 # 0 THEN [found |-> FALSE]
    ELSE Call(natOfInt(natRootFrom(m, 0, 24)), LAMBDA r :
             IF natMul(r, r) # m THEN [found |-> FALSE]
             ELSE exactRoot(r, e \div 2, k - 1))

\* a^b for a > 0 and a fraction b = p / 2^k with p odd is c^p when a has the
\* 2^k-th root c among the doubles: the pair of c and p, or else of a and b.
rootPower(a, b) ==
    Call(exactRoot(a.m, a.e, -b.e), LAMBDA root :
        IF root.found THEN <<Fin(1, root.m, root.e), Fin(b.s, b.m, 0)>> ELSE <<a, b>>)

\* Math.pow(a, b) on numbers: the values it may return.
pow(a0, b0) ==
    Call(<<a0, b0>>, LAMBDA p :
        LET a == p[1]
            b == p[2]
            one == a.k = "fin" /\ a.m = <<1>> /\ a.e = 0
            s == IF a.k \in {"fin", "inf"} /\ a.s = -1 /\ IsOddInteger(b) THEN -1 ELSE 1
        IN  IF b.k = "nan" THEN {NaN}
            ELSE IF IsZero(b) THEN {Integer(1)}
            ELSE IF a.k = "nan" THEN {NaN}
            ELSE IF a.k = "inf" \/ IsZero(a)
            THEN {IF (a.k = "inf") = (b.s = 1) THEN Infinity(s) ELSE Zero(s)}
            ELSE IF b.k = "inf"
            THEN {IF one THEN NaN
                  ELSE IF (topBit(a) > 0) = (b.s = 1) THEN Infinity(1) ELSE Zero(1)}
            ELSE IF ~IsInteger(b) /\ a.s = -1 THEN {NaN}
            ELSE IF one THEN {Fin(s, <<1>>, 0)}
            ELSE Call(IF IsInteger(b) THEN <<a, b>> ELSE rootPower(a, b), LAMBDA ab :
                     finitePower(s, ab[1], ab[2])))

\* ToNumber of a value: undefined, a function and the strings that arise
\* here (all hold a function's source text) convert to NaN.
ToNumber(v) == IF v.k \in {"undefined", "function", "string"} THEN NaN ELSE v

-----------------------------------------------------------------------------
(* ASTCalculatorVisitor *)

\* The property names that the scope object, an object literal, inherits
\* from Object.prototype and that the lexer can produce as an identifier
\* (letters only); each is bound to a function.
ObjectPrototypeKeys ==
    {"constructor", "toString", "toLocaleString", "valueOf", "hasOwnProperty",
     "isPrototypeOf", "propertyIsEnumerable"}

MathPI == Number("3.141592653589793")

MathE == Number("2.718281828459045")

\* The scope a new ASTCalculatorVisitor starts with.
initialScope == [name \in {"pi", "e"} |-> IF name = "pi" THEN MathPI ELSE MathE]

\* this.scope[name]
scopeGet(sc, name) ==
    IF name \in DOMAIN sc THEN sc[name]
    ELSE IF name \in ObjectPrototypeKeys THEN FunctionObject
    ELSE Undefined

\* A variant of scopeSet that keeps the value a name already has.
scopeSetKeepsFirst(sc, name, value) ==
    [x \in DOMAIN sc \cup {name} |-> IF x \in DOMAIN sc THEN sc[x] ELSE value]

\* this.scope[name] = value
scopeSet(sc, name, value) ==
    [x \in DOMAIN sc \cup {name} |-> IF x = name THEN value ELSE sc[x]]

\* A variant of getOutput that answers 0, the initial value of the field
\* `output`, when nothing is bound to out.
getOutputOrZero(sc) == IF "out" \in DOMAIN sc THEN sc["out"] ELSE Integer(0)

\* ASTCalculatorVisitor.getOutput
getOutput(sc) == scopeGet(sc, "out")

UndefinedSymbolError(name) == [kind |-> "UndefinedSymbolError", name |-> name]

\* this.stack.pop(): undefined, and the stack unchanged, when it is empty.
popValue(stk) == IF Len(stk) = 0 THEN Undefined ELSE stk[Len(stk)]

\* A pop that reads the last element and leaves it in place.
popRestKeeps(stk) == stk

popRest(stk) == IF Len(stk) = 0 THEN stk ELSE SubSeq(stk, 1, Len(stk) - 1)

\* left + right: concatenation when an operand is a function or a string.
plus(left, right) ==
    IF left.k \in {"function", "string"} \/ right.k \in {"function", "string"}
    THEN StringValue
    ELSE add(ToNumber(left), ToNumber(right))

\* ASTCalculatorVisitor.resolve: the values it may return, one except for
\* a power.  The parser builds no other operator.
resolve(type, left, right) ==
    CASE type = "PLUS"  -> {plus(left, right)}
      [] type = "MINUS" -> {sub(ToNumber(left), ToNumber(right))}
      [] type = "DIVI"  -> {div(ToNumber(left), ToNumber(right))}
      [] type = "MULT"  -> {mul(ToNumber(left), ToNumber(right))}
      [] type = "POW"   -> pow(ToNumber(left), ToNumber(right))

\* signFactor of visitUnaryExpr
signFactorOf(opToken) == IF opToken = "MINUS" THEN Integer(-1) ELSE Integer(1)

\* `if (this.stack.length === 0) this.output += result`, after the push
outputAfter(out, stk, result) ==
    IF Len(stk) = 0 THEN plus(out, result) ELSE out

-----------------------------------------------------------------------------
(* The call stack of a traversal.  A frame is a call in progress: a        *)
(* pending node.accept(visitor), or a visit method waiting for the accept  *)
(* it made to return, with the locals it still needs.  The last frame is   *)
(* the running one.                                                        *)

MaxCounter == 8

AcceptFrame(node) == [m |-> "accept", node |-> node]

ForEachFrame(statements, index) ==
    [m |-> "forEach", statements |-> statements, index |-> index]

AssignFrame(id) == [m |-> "visitAssignExpr", id |-> id]

UnaryFrame(signFactor) == [m |-> "visitUnaryExpr", signFactor |-> signFactor]

FactorialFrame == [m |-> "visitFactorialExpr"]

\* A call of factorial: its argument, its locals, and its position in the
\* loop, before the test of the guard or before the body.
LoopFrame(num, val, i, at) ==
    [m |-> "factorial", num |-> num, val |-> val, i |-> i, at |-> at]

BinaryLeftFrame(token, right) ==
    [m |-> "visitBinaryExpr", at |-> "left", token |-> token, right |-> right]

BinaryRightFrame(token, left) ==
    [m |-> "visitBinaryExpr", at |-> "right", token |-> token, left |-> left]

Top == frames[Len(frames)]

Callers == SubSeq(frames, 1, Len(frames) - 1)

Visiting(kind) ==
    /\ visitor = "ASTCalculatorVisitor"
    /\ phase = "visiting"
    /\ Len(frames) > 0
    /\ Top.m = "accept"
    /\ Top.node.kind = kind

Resuming(m) ==
    /\ phase = "visiting"
    /\ Len(frames) > 0
    /\ Top.m = m

\* The arguments of interpret, and what a caller that drives a Lexer by
\* itself has done with it: the tokens nextToken() returned to it, and the
\* calls of advance() it made.  The parser keeps its lexer to itself and
\* calls nextToken() only, so that under interpret the two stay empty.
callVars == <<text, visitor, tokens, advanceCalls>>

parserVars == <<lexCursor, currentToken, assignList>>

visitorVars == <<scope, stack, output>>

-----------------------------------------------------------------------------
(* Intepretor.interpret(input, visitor) with a new ASTCalculatorVisitor *)

\* The parser and lexer fields after a parser method left state p; an
\* exception leaves interpret.
ParserLeaves(p) ==
    /\ lexCursor' = p.lexCursor
    /\ currentToken' = p.currentToken
    /\ error' = p.error
    /\ phase' = IF Thrown(p) THEN "thrown" ELSE "parsing"

\* assignList.push(new AssignExpr(id, this.expr())), r the iteration's
\* result: nothing is pushed when the exception came before the push.
DeclarationLeaves(r) ==
    /\ ParserLeaves(r.p)
    /\ assignList' = IF r.ast = NoAST THEN assignList ELSE Append(assignList, r.ast)

\* let parser = new Parser(input)
NewParser ==
    /\ phase = "new"
    /\ ParserLeaves(newParser(text))
    /\ UNCHANGED <<callVars, assignList, frames, visitorVars>>

\* An interpreter that hands each statement to the visitor as soon as it is
\* parsed.
DeclarationsLoopVisiting ==
    /\ phase = "parsing"
    /\ currentToken.type # "EOF"
    /\ LET r == declaration(ParserState(text, lexCursor, currentToken, NoError)) IN
         /\ DeclarationLeaves(r)
         /\ stack' = IF Thrown(r.p) \/ visitor # "ASTPrinterVisitor" THEN stack
                     ELSE Append(stack, r.ast.id.value)
         /\ scope' = IF Thrown(r.p) \/ visitor # "ASTCalculatorVisitor" THEN scope
                     ELSE scopeSet(scope, r.ast.id.value, Integer(0))
    /\ UNCHANGED <<callVars, frames, output>>

\* One iteration of the while loop of Parser.declarations.
DeclarationsLoop ==
    /\ phase = "parsing"
    /\ currentToken.type # "EOF"
    /\ DeclarationLeaves(declaration(ParserState(text, lexCursor, currentToken, NoError)))
    /\ UNCHANGED <<callVars, frames, visitorVars>>

\* The loop ends at EOF: parse() returns new StatementListExpr(assignList)
\* and interpret calls rootAST.accept(visitor).
DeclarationsReturn ==
    /\ phase = "parsing"
    /\ currentToken.type = "EOF"
    /\ phase' = "visiting"
    /\ frames' = <<AcceptFrame(StatementListExpr(assignList))>>
    /\ UNCHANGED <<callVars, parserVars, visitorVars, error>>

\* visitStatementListExpr: statements.forEach(...) begins.
VisitStatementListExpr ==
    /\ Visiting("StatementListExpr")
    /\ frames' = Append(Callers, ForEachFrame(Top.node.statements, 1))
    /\ UNCHANGED <<callVars, phase, parserVars, visitorVars, error>>

\* forEach calls expr.accept(this) on the next statement.
ForEachAccept ==
    /\ Resuming("forEach")
    /\ Top.index <= Len(Top.statements)
    /\ frames' = Callers \o <<ForEachFrame(Top.statements, Top.index + 1),
                              AcceptFrame(Top.statements[Top.index])>>
    /\ UNCHANGED <<callVars, phase, parserVars, visitorVars, error>>

\* forEach is over; visitStatementListExpr, accept and interpret return.
ForEachReturn ==
    /\ Resuming("forEach")
    /\ Top.index > Len(Top.statements)
    /\ frames' = Callers
    /\ phase' = IF Len(Callers) = 0 THEN "returned" ELSE phase
    /\ UNCHANGED <<callVars, parserVars, visitorVars, error>>

\* visitAssignExpr calls assignExpr.expr.accept(this).
VisitAssignExpr ==
    /\ Visiting("AssignExpr")
    /\ frames' = Callers \o <<AssignFrame(Top.node.id), AcceptFrame(Top.node.expr)>>
    /\ UNCHANGED <<callVars, phase, parserVars, visitorVars, error>>

\* this.scope[assignExpr.id.value] = this.stack.pop()
AssignReturn ==
    /\ Resuming("visitAssignExpr")
    /\ scope' = scopeSet(scope, Top.id.value, popValue(stack))
    /\ stack' = popRest(stack)
    /\ frames' = Callers
    /\ UNCHANGED <<callVars, phase, parserVars, output, error>>

\* this.stack.push(Number(valueExpr.num))
VisitValueExpr ==
    /\ Visiting("ValueExpr")
    /\ stack' = Append(stack, Number(Top.node.num))
    /\ frames' = Callers
    /\ UNCHANGED <<callVars, phase, parserVars, scope, output, error>>

\* A variant of VisitRefExpr that empties the symbol table when it throws.
VisitRefExprRollsBack ==
    /\ Visiting("RefExpr")
    /\ LET name   == Top.node.constToken.value
           result == scopeGet(scope, name)
       IN  IF result = Undefined
           THEN /\ error' = UndefinedSymbolError(name)
                /\ phase' = "thrown"
                /\ scope' = initialScope
                /\ UNCHANGED <<frames, stack, output>>
           ELSE /\ stack' = Append(stack, result)
                /\ output' = outputAfter(output, stack', result)
                /\ frames' = Callers
                /\ UNCHANGED <<phase, error, scope>>
    /\ UNCHANGED <<callVars, parserVars>>

\* visitRefExpr: throw on undefined, push the value found otherwise.
VisitRefExpr ==
    /\ Visiting("RefExpr")
    /\ LET name   == Top.node.constToken.value
           result == scopeGet(scope, name)
       IN  IF result = Undefined
           THEN /\ error' = UndefinedSymbolError(name)
                /\ phase' = "thrown"
                /\ UNCHANGED <<frames, stack, output>>
           ELSE /\ stack' = Append(stack, result)
                /\ output' = outputAfter(output, stack', result)
                /\ frames' = Callers
                /\ UNCHANGED <<phase, error>>
    /\ UNCHANGED <<callVars, parserVars, scope>>

\* visitUnaryExpr sets signFactor and calls unaryExpr.expr.accept(this).
VisitUnaryExpr ==
    /\ Visiting("UnaryExpr")
    /\ frames' = Callers \o <<UnaryFrame(signFactorOf(Top.node.opToken)),
                              AcceptFrame(Top.node.expr)>>
    /\ UNCHANGED <<callVars, phase, parserVars, visitorVars, error>>

\* result = signFactor * this.stack.pop(); this.stack.push(result)
UnaryReturn ==
    /\ Resuming("visitUnaryExpr")
    /\ LET result == mul(Top.signFactor, ToNumber(popValue(stack))) IN
       /\ stack' = Append(popRest(stack), result)
       /\ output' = outputAfter(output, stack', result)
    /\ frames' = Callers
    /\ UNCHANGED <<callVars, phase, parserVars, scope, error>>

\* visitFactorialExpr calls factorialExpr.factor.accept(this).
VisitFactorialExpr ==
    /\ Visiting("FactorialExpr")
    /\ frames' = Callers \o <<FactorialFrame, AcceptFrame(Top.node.factor)>>
    /\ UNCHANGED <<callVars, phase, parserVars, visitorVars, error>>

\* this.factorial(this.stack.pop()) is called: var val = 1, i = 2.
FactorialCall ==
    /\ Resuming("visitFactorialExpr")
    /\ frames' = Callers \o <<FactorialFrame,
                              LoopFrame(popValue(stack), Integer(1), Integer(2), "test")>>
    /\ stack' = popRest(stack)
    /\ UNCHANGED <<callVars, phase, parserVars, scope, output, error>>

\* A variant of the guard that stops one short: i < num.
loopGuardStrict(i, num) ==
    IF i.k = "untracked" THEN num = Infinity(1)
    ELSE /\ lessOrEqual(i, ToNumber(num))
         /\ ~lessOrEqual(ToNumber(num), i)

\* The guard of the loop of factorial: i <= num.  A counter that is no
\* longer followed is a number above MaxCounter, and the operand is then
\* Infinity, which exceeds it.
loopGuard(i, num) ==
    IF i.k = "untracked" THEN num = Infinity(1)
    ELSE lessOrEqual(i, ToNumber(num))

\* i++.  When the operand is Infinity the guard is true of every counter
\* and the loop never ends (at 2^53, i + 1 = i): the counter is followed up
\* to MaxCounter and is a number that is not tracked from there on.
increment(i, num) ==
    Call(add(i, Integer(1)), LAMBDA next :
        IF next.k = "untracked" THEN Untracked
        ELSE IF num = Infinity(1) /\ ~lessOrEqual(next, Integer(MaxCounter))
        THEN Untracked ELSE next)

\* The guard of the loop holds: the body is entered.
FactorialTest ==
    /\ Resuming("factorial")
    /\ Top.at = "test"
    /\ loopGuard(Top.i, Top.num)
    /\ frames' = Append(Callers, LoopFrame(Top.num, Top.val, Top.i, "body"))
    /\ UNCHANGED <<callVars, phase, parserVars, visitorVars, error>>

\* The body of the loop and its increment: val = val * i; i++.
FactorialLoop ==
    /\ Resuming("factorial")
    /\ Top.at = "body"
    /\ frames' = Append(Callers, LoopFrame(Top.num, mul(Top.val, Top.i),
                                           increment(Top.i, Top.num), "test"))
    /\ UNCHANGED <<callVars, phase, parserVars, visitorVars, error>>

\* A factorial that is not a number for a negative operand.
factorialResultUndefinedBelowZero(num, val) ==
    IF num.k = "fin" /\ num.s = -1 /\ ~IsZero(num) THEN NaN ELSE val

\* The result of factorial(num) when its loop ends.
factorialResult(num, val) == val

\* The guard fails: factorial returns val; visitFactorialExpr pushes it.
FactorialReturn ==
    /\ Resuming("factorial")
    /\ Top.at = "test"
    /\ ~loopGuard(Top.i, Top.num)
    /\ LET result == factorialResult(Top.num, Top.val) IN
       /\ stack' = Append(stack, result)
       /\ output' = outputAfter(output, stack', result)
    /\ frames' = SubSeq(Callers, 1, Len(Callers) - 1)
    /\ UNCHANGED <<callVars, phase, parserVars, scope, error>>

\* visitBinaryExpr calls binaryExpr.left.accept(this).
VisitBinaryExpr ==
    /\ Visiting("BinaryExpr")
    /\ frames' = Callers \o <<BinaryLeftFrame(Top.node.token, Top.node.right),
                              AcceptFrame(Top.node.left)>>
    /\ UNCHANGED <<callVars, phase, parserVars, visitorVars, error>>

\* left = this.stack.pop(); binaryExpr.right.accept(this)
BinaryLeftReturn ==
    /\ Resuming("visitBinaryExpr")
    /\ Top.at = "left"
    /\ frames' = Callers \o <<BinaryRightFrame(Top.token, popValue(stack)),
                              AcceptFrame(Top.right)>>
    /\ stack' = popRest(stack)
    /\ UNCHANGED <<callVars, phase, parserVars, scope, output, error>>

\* right = this.stack.pop(); this.stack.push(this.resolve(token, left, right))
BinaryRightReturn ==
    /\ Resuming("visitBinaryExpr")
    /\ Top.at = "right"
    /\ \E result \in resolve(Top.token, Top.left, popValue(stack)) :
          /\ stack' = Append(popRest(stack), result)
          /\ output' = outputAfter(output, stack', result)
    /\ frames' = Callers
    /\ UNCHANGED <<callVars, phase, parserVars, scope, error>>

-----------------------------------------------------------------------------
(* ASTPrinterVisitor.  Its visit methods neither throw nor loop, so a     *)
(* visit is an operator from the stack before it to the stack after it,   *)
(* and the whole traversal is one step of interpret.                      *)

\* Array.prototype.join('')
RECURSIVE joinStrings(_)
joinStrings(strs) ==
    IF Len(strs) = 0 THEN "" ELSE Head(strs) \o joinStrings(Tail(strs))

\* ASTPrinterVisitor.getOutput
printerGetOutput(stk) == joinStrings(stk)

\* ASTPrinterVisitor.constTable
constTable == [pi |-> "&pi;", e |-> "<i>e</i>"]

\* The text of constTable[name] in a template literal for a name that the
\* table, an object literal, inherits from Object.prototype: the source text
\* of a built-in function, which gives its name; constructor is Object.
functionText(name) ==
    "function " \o (IF name = "constructor" THEN "Object" ELSE name)
                \o "() { [native code] }"

\* node.token: undefined on a node that is not a BinaryExpr
tokenOf(node) == IF "token" \in DOMAIN node THEN node.token ELSE undefined

\* this.stack.push(`${prefix}${this.stack.pop()}`), or with the popped
\* string in parentheses
pushBare(stk, prefix) == Append(popRest(stk), prefix \o popValue(stk))

pushWrapped(stk, prefix) == Append(popRest(stk), prefix \o "(" \o popValue(stk) \o ")")

\* The test of visitUnaryExpr: the operand is printed without parentheses.
unaryOperandBare(e) == e.kind \in {"ValueExpr", "FactorialExpr"}

\* The test of visitFactorialExpr.
factorialOperandBare(f) == f.kind \in {"ValueExpr", "FactorialExpr", "RefExpr"}

\* The first test of visitBinaryExpr, on the left operand.
leftOperandBare(b) ==
    \/ b.left.kind \in {"ValueExpr", "FactorialExpr"}
    \/ /\ b.left.kind = "BinaryExpr"
       /\ b.left.token \in {"DIVI", b.token, "POW"}
    \/ b.left.kind = "RefExpr"

\* A variant of the test on the right operand without its clause for a
\* right operand that is an exponentiation.
rightOperandBareUnlessPow(b) ==
    \/ b.right.kind \in {"ValueExpr", "FactorialExpr"}
    \/ b.token = "POW"
    \/ /\ b.right.kind = "BinaryExpr"
       /\ b.right.token \in {"DIVI", b.token}
    \/ b.right.kind = "RefExpr"

\* The second test of visitBinaryExpr, on the right operand.
rightOperandBare(b) ==
    \/ b.right.kind \in {"ValueExpr", "FactorialExpr"}
    \/ b.token = "POW"
    \/ /\ b.right.kind = "BinaryExpr"
       /\ b.right.token \in {"DIVI", b.token}
    \/ tokenOf(b.right) = "POW"
    \/ b.right.kind = "RefExpr"

\* ASTPrinterVisitor.resolve
printerResolve(type, left, right) ==
    CASE type = "PLUS"  -> left \o " &plus; " \o right
      [] type = "MINUS" -> left \o " &minus; " \o right
      [] type = "DIVI"  -> "<sup>" \o left \o "</sup>&frasl;<sub>" \o right \o "</sub>"
      [] type = "MULT"  -> left \o " &times; " \o right
      [] type = "POW"   -> left \o "<sup>" \o right \o "</sup>"

\* let left = ... this.stack.pop() ..., after the left operand was visited
printedOperand(bare, stk) ==
    IF bare THEN popValue(stk) ELSE "(" \o popValue(stk) \o ")"

RECURSIVE printerAccept(_, _)

\* ASTPrinterVisitor.visitUnaryExpr
printerVisitUnaryExpr(unaryExpr, stk) ==
    Call(printerAccept(unaryExpr.expr, stk), LAMBDA visited :
        IF unaryOperandBare(unaryExpr.expr)
        THEN pushBare(visited, IF unaryExpr.opToken = "MINUS" THEN "&minus;" ELSE "")
        ELSE pushWrapped(visited, IF unaryExpr.opToken = "MINUS" THEN "&minus;" ELSE ""))

\* ASTPrinterVisitor.visitValueExpr
printerVisitValueExpr(valueExpr, stk) == Append(stk, valueExpr.num)

\* ASTPrinterVisitor.visitRefExpr
printerVisitRefExpr(constExpr, stk) ==
    Append(stk, IF constExpr.constToken.value \in DOMAIN constTable
                THEN constTable[constExpr.constToken.value]
                ELSE IF constExpr.constToken.value \in ObjectPrototypeKeys
                THEN functionText(constExpr.constToken.value)
                ELSE constExpr.constToken.value)

\* ASTPrinterVisitor.visitFactorialExpr
printerVisitFactorialExpr(factorialExpr, stk) ==
    Call(printerAccept(factorialExpr.factor, stk), LAMBDA visited :
        IF factorialOperandBare(factorialExpr.factor)
        THEN pushBare(visited, "!")
        ELSE pushWrapped(visited, "!"))

\* The second half of visitBinaryExpr: the right operand is visited and
\* popped, and the resolved string is pushed.
printerBinaryRight(binaryExpr, left, stk) ==
    Call(printerAccept(binaryExpr.right, stk), LAMBDA visited :
        Append(popRest(visited),
               printerResolve(binaryExpr.token, left,
                              printedOperand(rightOperandBare(binaryExpr), visited))))

\* ASTPrinterVisitor.visitBinaryExpr
printerVisitBinaryExpr(binaryExpr, stk) ==
    Call(printerAccept(binaryExpr.left, stk), LAMBDA visited :
        printerBinaryRight(binaryExpr,
                           printedOperand(leftOperandBare(binaryExpr), visited),
                           popRest(visited)))

\* ASTPrinterVisitor.visitAssignExpr
printerVisitAssignExpr(assignExpr, stk) ==
    Call(printerAccept(assignExpr.expr, stk), LAMBDA visited :
        pushBare(visited, assignExpr.id.value \o " = "))

\* AST.accept(visitor) of each expression class
printerAccept(node, stk) ==
    CASE node.kind = "UnaryExpr"     -> printerVisitUnaryExpr(node, stk)
      [] node.kind = "ValueExpr"     -> printerVisitValueExpr(node, stk)
      [] node.kind = "RefExpr"       -> printerVisitRefExpr(node, stk)
      [] node.kind = "FactorialExpr" -> printerVisitFactorialExpr(node, stk)
      [] node.kind = "BinaryExpr"    -> printerVisitBinaryExpr(node, stk)
      [] node.kind = "AssignExpr"    -> printerVisitAssignExpr(node, stk)

\* The forEach of visitStatementListExpr:
\* expr.accept(this); this.stack.push(`${this.stack.pop()}<br>`)
RECURSIVE printerForEach(_, _)
printerForEach(statements, stk) ==
    IF Len(statements) = 0 THEN stk
    ELSE Call(printerAccept(Head(statements), stk), LAMBDA visited :
             printerForEach(Tail(statements),
                            Append(popRest(visited), popValue(visited) \o "<br>")))

\* ASTPrinterVisitor.visitStatementListExpr
printerVisitStatementListExpr(statementListExpr, stk) ==
    printerForEach(statementListExpr.statements, stk)

\* rootAST.accept(visitor) with the printer: the traversal, then interpret
\* returns.  this.output is assigned only when the stack is empty after a
\* push, which is never but for a program without statements, and then to
\* the empty string it holds already.
PrinterAccept ==
    /\ visitor = "ASTPrinterVisitor"
    /\ phase = "visiting"
    /\ frames = <<AcceptFrame(StatementListExpr(assignList))>>
    /\ stack' = printerVisitStatementListExpr(Top.node, stack)
    /\ frames' = <<>>
    /\ phase' = "returned"
    /\ UNCHANGED <<callVars, parserVars, scope, output, error>>

-----------------------------------------------------------------------------
(* The input texts of the model *)

MaxChain == 3

MaxStatements == 3

MaxLexemes == 4

SeqsUpTo(S, n) == UNION {[1..k -> S] : k \in 0..n}

\* The strings of a sequence, joined by a separator.
RECURSIVE Join(_, _)
Join(strs, sep) ==
    IF Len(strs) = 0 THEN ""
    ELSE IF Len(strs) = 1 THEN strs[1]
    ELSE strs[1] \o sep \o Join(Tail(strs), sep)

OperatorChars == {"+", "-", "*", "/", "^"}

ChainOperands == {"2", "3", "5"}

\* operands[1] ops[1] operands[2] ... ops[n-1] operands[n]
RECURSIVE ChainExpr(_, _)
ChainExpr(operands, ops) ==
    IF Len(operands) = 1 THEN operands[1]
    ELSE operands[1] \o " " \o ops[1] \o " " \o ChainExpr(Tail(operands), Tail(ops))

ChainText(operands, ops) == "out = " \o ChainExpr(operands, ops)

\* Unparenthesized chains of up to MaxChain literals.
ChainTexts ==
    UNION {{ChainText(operands, ops) :
                operands \in [1..n -> ChainOperands],
                ops \in [1..(n - 1) -> OperatorChars]} : n \in 1..MaxChain}

StatementPool ==
    {"x = 2", "y = x * 3", "out = y + 1", "x = x + 1", "out = x", "Out = 1",
     "out = z + 1", "pi = 4"}

\* Programs of up to MaxStatements statements, separated by a semicolon.
ProgramTexts == {Join(stmts, "; ") : stmts \in SeqsUpTo(StatementPool, MaxStatements)}

Lexemes == {"x", "=", "2", "pi", "(", ")", ";", "@"}

\* Every text of up to MaxLexemes lexemes, separated by one blank.
LexemeTexts == {Join(ls, " ") : ls \in SeqsUpTo(Lexemes, MaxLexemes)}

OperandLexemes == {"2", "pi", "(", ")", "-", "!"}

\* One assignment whose right-hand side is up to MaxLexemes lexemes.
OperandTexts ==
    {"x = " \o Join(ls, " ") : ls \in SeqsUpTo(OperandLexemes, MaxLexemes)}

FactorialOperands == {"0", "1", "2", "3", "3.5", "4", "5", "(-2)", "(0 - 1)", "(5 / 2)"}

PrefixFactorialTexts == {"out = !" \o f : f \in FactorialOperands}

PostfixFactorialTexts == {"out = " \o f \o "!" : f \in FactorialOperands}

ExampleTexts ==
    {"out = 10 - 2 - 3", "out = 100 / 2 / 5", "out = 2 ^ 3 * 2", "out = 2 + 3",
     "x = 2; y = x * 3; out = y + 1", "x = 2\ny = x * 3\nout = y + 1",
     "x = 1 y = 2", "x = 1; x = 2", "out = 1; out = 2; x = out",
     "out = z + 1", "x = x + 1", "out = toString", "out = constructor + 1",
     "x = valueOf; out = -x", "out = pi", "out = PI * E", "e = 1; out = e",
     "OUT = 1", "Out = 1; out = 2", "",
     "out = !(1/0)", "out = !(0 - 1/0)", "out = !(0/0)", "out = !!3", "out = -!3",
     "out = !pi", "out = 1 / -0", "out = 1.2.3", "out = .", "out = 12345",
     "x = 2 3", "x = 2pi", "x = 2(3)", "x = pi 2", "x = (1) 2", "x = !3 2",
     "x = -1 2", "x = 2 3 4", "x = 2 * 3", 
     "2 + 3", ";;", "\nx = 1", "x = 1;;", "x = 1\n\ny = 2", "x = 2 @", "@",
     "x @ = 1", "x = (2", "x = ", "x = 1,", "x = 1 \ny = 2", "x1 = 2",
     "out = 1; y = z; out = 2", "x = 3; out = x; y = w + 1",
     "out = (1 - 2) - 3", "out = 2 * (3 + 4) ^ 2", "out = 0 ^ -1",
     "x = 1; y = (2", "x = 1; y = 2 @", "x = 1\ny = 2\n3 = z",
     "x = 1; @", "x = 1\n@", "x = 1; y = 2; #",
     VerticalTab, VerticalTab \o "x = 1", " " \o VerticalTab \o "x",
     "x =" \o VerticalTab \o "2\ny = x", "x" \o NoBreakSpace \o "= 1",
     "x = 1 " \o NoBreakSpace \o ByteOrderMark \o OghamSpaceMark \o "\ny = 2",
     "out = 0.1 + 0.2", "out = 1 + 2 / 3", "out = !((1 - 0.9) * 20)",
     "out = !(0.3/0.1)", "out = !((0.7 + 0.1) * 5)", "out = 2 ^ 5 ^ 5",
     "out = !e", "out = 2 ^ 0.5", "out = !(pi/0)", "out = 3 * 0.1",
     "out = 0.1 ^ 2", "out = (0 - 1) ^ pi", "out = 2 ^ -1074", "out = !(2 ^ 0.5)",
     "out = 3 ^ 35", "out = 5 ^ -4", "out = !(3 ^ 1.5)", "out = !(10 ^ 400.5)",
     "out = 4 ^ 0.5", "out = -toString"}

\* Texts whose printing shows where parentheses are put.
PrinterTexts ==
    {"x = 2 * 3 ^ 4", "x = 2 + 3 ^ 4", "x = 2 - 3 ^ 4", "x = 2 / 3 ^ 4",
     "x = 3*(1+2)", "x = 2^3^4", "x = 2 ^ (3 + 4)", "x = 2 * -3", "x = 2 ^ -3",
     "x = 2 - (3 + 4)", "x = 2 / (3 * 4)", "x = 2 * (3 / 4)", "x = 2 + y",
     "x = (1 + 2) * 3", "x = (2 ^ 3) + 1", "x = 2 * !3", "x = 2 + pi",
     "x = -pi", "x = !pi", "x = -e", "x = -y", "x = !y", "x = -2", "x = !2",
     "x = -!3", "x = !!3", "x = --2", "x = !-3", "x = -(2 + 3)", "x = !(2 + 3)",
     "x = +pi", "x = +2", "x = -(pi)", "x = 1; y = -x"}

\* The three ways of writing two operators between the literals 1, 2, 3:
\* without parentheses, and with them around the first or the last two.
GroupedTexts ==
    UNION {{"out = 1 " \o o \o " 2 " \o p \o " 3",
            "out = (1 " \o o \o " 2) " \o p \o " 3",
            "out = 1 " \o o \o " (2 " \o p \o " 3)"} :
                o \in OperatorChars, p \in OperatorChars}

Inputs ==
    ChainTexts \cup ProgramTexts \cup LexemeTexts \cup OperandTexts
    \cup PrefixFactorialTexts \cup PostfixFactorialTexts \cup ExampleTexts
    \cup PrinterTexts \cup GroupedTexts

\* The state when interpret(text, v) is called with a new visitor v: the
\* printer's output is the empty string, the calculator's is 0.
StartWith(texts, visitors) ==
    /\ text \in texts
    /\ visitor \in visitors
    /\ tokens = <<>>
    /\ advanceCalls = 0
    /\ phase = "new"
    /\ lexCursor = 0
    /\ currentToken = Token("EOF", undefined)
    /\ assignList = <<>>
    /\ frames = <<>>
    /\ scope = initialScope
    /\ stack = <<>>
    /\ output = IF visitor = "ASTPrinterVisitor" THEN "" ELSE Integer(0)
    /\ error = NoError

\* interpret(text, new ASTCalculatorVisitor())
Start(texts) == StartWith(texts, {"ASTCalculatorVisitor"})

Init == Start(Inputs)

Next ==
    \/ NewParser
    \/ DeclarationsLoop
    \/ DeclarationsReturn
    \/ VisitStatementListExpr
    \/ ForEachAccept
    \/ ForEachReturn
    \/ VisitAssignExpr
    \/ AssignReturn
    \/ VisitValueExpr
    \/ VisitRefExpr
    \/ VisitUnaryExpr
    \/ UnaryReturn
    \/ VisitFactorialExpr
    \/ FactorialCall
    \/ FactorialTest
    \/ FactorialLoop
    \/ FactorialReturn
    \/ VisitBinaryExpr
    \/ BinaryLeftReturn
    \/ BinaryRightReturn

Spec == Init /\ [][Next]_vars

\* interpret(text, visitor) with either visitor.
Visitors == {"ASTCalculatorVisitor", "ASTPrinterVisitor"}

InterpretInit == StartWith(Inputs, Visitors)

InterpretNext == Next \/ PrinterAccept

InterpretSpec == InterpretInit /\ [][InterpretNext]_vars

-----------------------------------------------------------------------------
(* Properties *)

Parsed == phase \in {"visiting", "returned"}

\* parse() has just returned: interpret holds the root and calls its accept.
ParseReturned ==
    phase = "visiting" /\ frames = <<AcceptFrame(StatementListExpr(assignList))>>

Returned == phase = "returned"

ThrownBy(kind) == phase = "thrown" /\ error.kind = kind

\* The operands and the operators of a chain text, read back from the
\* places ChainText puts them at.
ChainLength(txt) == (Len(txt) - 3) \div 4

OperandsOf(txt) == [k \in 1..ChainLength(txt) |-> SubSeq(txt, 4 * k + 3, 4 * k + 3)]

OperatorsOf(txt) ==
    [k \in 1..(ChainLength(txt) - 1) |-> SubSeq(txt, 4 * k + 5, 4 * k + 5)]

Range(f) == {f[k] : k \in DOMAIN f}

IsChainOf(txt, opers) == txt \in ChainTexts /\ Range(OperatorsOf(txt)) \subseteq opers

\* a1 op1 (a2 op2 (... an)): the tree, and the values it may have (one,
\* except where a power is no double).
RECURSIVE RightNested(_, _)
RightNested(operands, ops) ==
    IF Len(operands) = 1 THEN ValueExpr(operands[1])
    ELSE BinaryExpr(ValueExpr(operands[1]), SingleCharToken(ops[1]).type,
                    RightNested(Tail(operands), Tail(ops)))

RECURSIVE RightValue(_, _)
RightValue(operands, ops) ==
    IF Len(operands) = 1 THEN {Number(operands[1])}
    ELSE UNION {resolve(SingleCharToken(ops[1]).type, Number(operands[1]), right) :
                   right \in RightValue(Tail(operands), Tail(ops))}

OutIs(tree) == assignList = <<AssignExpr(Token("ID", "out"), tree)>>

\* The text is parsed as one assignment of the right-nested tree to out,
\* and evaluates to the right-nested value.
RightAssociative(txt) ==
    /\ phase # "thrown"
    /\ Parsed => OutIs(RightNested(OperandsOf(txt), OperatorsOf(txt)))
    /\ Returned => getOutput(scope) \in RightValue(OperandsOf(txt), OperatorsOf(txt))

\* C1: an unparenthesized chain of + and - is parsed right-nested,
\* a - b - c as BinaryExpr(a, MINUS, BinaryExpr(b, MINUS, c)), and evaluates
\* to a - (b - c); `out = 10 - 2 - 3` yields 11.
C1_AdditiveChainsNestRight ==
    /\ IsChainOf(text, {"+", "-"}) => RightAssociative(text)
    /\ text = "out = 10 - 2 - 3" =>
          /\ phase # "thrown"
          /\ Parsed => OutIs(BinaryExpr(ValueExpr("10"), "MINUS",
                               BinaryExpr(ValueExpr("2"), "MINUS", ValueExpr("3"))))
          /\ Returned => getOutput(scope) = Integer(11)

C1_Witness ==
    /\ Returned
    /\ \/ text = "out = 10 - 2 - 3" /\ getOutput(scope) = Integer(11)
       \/ text = "out = 2 - 3 + 5" /\ getOutput(scope) = Integer(-6)

\* C2: an unparenthesized chain of *, / and ^ is parsed right-nested,
\* a op1 b op2 c as a op1 (b op2 c); `out = 100 / 2 / 5` yields 250 and
\* `out = 2 ^ 3 * 2` yields 64.
C2_MultiplicativeChainsNestRight ==
    /\ IsChainOf(text, {"*", "/", "^"}) => RightAssociative(text)
    /\ text = "out = 100 / 2 / 5" =>
          /\ phase # "thrown"
          /\ Parsed => OutIs(BinaryExpr(ValueExpr("100"), "DIVI",
                               BinaryExpr(ValueExpr("2"), "DIVI", ValueExpr("5"))))
          /\ Returned => getOutput(scope) = Integer(250)
    /\ text = "out = 2 ^ 3 * 2" =>
          /\ phase # "thrown"
          /\ Parsed => OutIs(BinaryExpr(ValueExpr("2"), "POW",
                               BinaryExpr(ValueExpr("3"), "MULT", ValueExpr("2"))))
          /\ Returned => getOutput(scope) = Integer(64)

C2_Witness ==
    /\ Returned
    /\ \/ text = "out = 100 / 2 / 5" /\ getOutput(scope) = Integer(250)
       \/ text = "out = 2 ^ 3 * 2" /\ getOutput(scope) = Integer(64)
       \/ text = "out = 5 / 3 ^ 2" /\ getOutput(scope) = div(Integer(5), Integer(9))

-----------------------------------------------------------------------------
(* Programs as a sequence of statements, read off the traversal *)

\* The number of statements whose accept was called, and the number whose
\* visit returned.  frames[1] is the root's call, which iterates over the
\* statements; an exception leaves the frames as they were.
Started ==
    IF phase = "returned" THEN Len(assignList)
    ELSE IF Len(frames) > 0 /\ frames[1].m = "forEach" THEN frames[1].index - 1
    ELSE 0

Completed == IF Len(frames) > 1 THEN Started - 1 ELSE Started

\* The values an expression without factorial may have in a symbol table,
\* by the meaning of its operators: one, except where a power is no double.
RECURSIVE ValueOf(_, _)
ValueOf(ast, sc) ==
    CASE ast.kind = "ValueExpr" -> {Number(ast.num)}
      [] ast.kind = "RefExpr" ->
            {IF ast.constToken.value \in DOMAIN sc THEN sc[ast.constToken.value]
             ELSE Undefined}
      [] ast.kind = "UnaryExpr" ->
            IF ast.opToken = "MINUS" THEN {neg(v) : v \in ValueOf(ast.expr, sc)}
            ELSE ValueOf(ast.expr, sc)
      [] ast.kind = "BinaryExpr" ->
            UNION {resolve(ast.token, left, right) :
                      <<left, right>> \in ValueOf(ast.left, sc) \X ValueOf(ast.right, sc)}

\* The symbol tables that may result when the first k statements ran one
\* after the other, each in the table the ones before it left.
RECURSIVE ScopeAfter(_, _)
ScopeAfter(stmts, k) ==
    IF k = 0 THEN {initialScope}
    ELSE UNION {{[name \in DOMAIN before \cup {stmts[k].id.value} |->
                     IF name = stmts[k].id.value THEN value ELSE before[name]] :
                    value \in ValueOf(stmts[k].expr, before)} :
                   before \in ScopeAfter(stmts, k - 1)}

SequentialTexts ==
    ProgramTexts \cup
    {"x = 2; y = x * 3; out = y + 1", "x = 2\ny = x * 3\nout = y + 1",
     "x = 1 y = 2", "x = 1; x = 2", "out = 1; out = 2; x = out",
     "e = 1; out = e", "out = 1; y = z; out = 2", "x = 3; out = x; y = w + 1"}

\* C3: statements run in source order, each right-hand side in the symbol
\* table the statements before it left, a later assignment to a name
\* replacing the earlier one: at every point of the traversal the table is
\* the one the completed statements build one after the other, and
\* `x = 2; y = x * 3; out = y + 1` ends with x = 2, y = 6, out = 7.
C3_StatementsRunInOrder ==
    /\ text \in SequentialTexts =>
          /\ scope \in ScopeAfter(assignList, Completed)
          /\ Started \in {Completed, Completed + 1}
    /\ text \in {"x = 2; y = x * 3; out = y + 1", "x = 2\ny = x * 3\nout = y + 1"} =>
          /\ phase # "thrown"
          /\ Returned =>
                /\ DOMAIN scope = {"pi", "e", "x", "y", "out"}
                /\ scope["x"] = Integer(2)
                /\ scope["y"] = Integer(6)
                /\ scope["out"] = Integer(7)
    /\ text = "x = 1; x = 2" /\ Returned => scope["x"] = Integer(2)

C3_Witness ==
    /\ Returned
    /\ text = "x = 2; y = x * 3; out = y + 1"
    /\ scope["x"] = Integer(2) /\ scope["y"] = Integer(6) /\ scope["out"] = Integer(7)

\* C4: a reference to a name that is not in the symbol table (not pi, not
\* e, not assigned by an earlier statement) throws the undefined-symbol error
\* naming it, and so never yields a value.
C4_UnboundReferenceThrows ==
    [][(Visiting("RefExpr") /\ Top.node.constToken.value \notin DOMAIN scope)
       => /\ phase' = "thrown"
          /\ error' = UndefinedSymbolError(Top.node.constToken.value)]_vars

OutStatements == {k \in 1..Len(assignList) : assignList[k].id.value = "out"}

LastOut == CHOOSE k \in OutStatements : \A j \in OutStatements : j <= k

\* C5: after a successful evaluation, getOutput is the value last assigned
\* to the name spelled `out`, and undefined (not 0) when no statement
\* assigned that name: the empty program, or one assigning only Out or OUT.
C5_OutputIsLastOut ==
    Returned =>
        IF OutStatements = {} THEN getOutput(scope) = Undefined
        ELSE /\ getOutput(scope) # Undefined
             /\ text \in SequentialTexts \cup ChainTexts =>
                   \E before \in ScopeAfter(assignList, LastOut - 1) :
                       getOutput(scope) \in ValueOf(assignList[LastOut].expr, before)

C5_Witness ==
    /\ Returned
    /\ \/ text = "OUT = 1" /\ getOutput(scope) = Undefined /\ scope["OUT"] = Integer(1)
       \/ text = "out = 1; out = 2; x = out" /\ getOutput(scope) = Integer(2)
       \/ text = "" /\ getOutput(scope) = Undefined

-----------------------------------------------------------------------------
\* The operand of a text of PrefixFactorialTexts or PostfixFactorialTexts.
PrefixOperand(txt) == SubSeq(txt, 8, Len(txt))

PostfixOperand(txt) == SubSeq(txt, 7, Len(txt) - 1)

\* The product of the integers from 2 up to the operand.
ProductUpTo(operand) ==
    CASE operand \in {"0", "1", "(-2)", "(0 - 1)"} -> 1
      [] operand \in {"2", "(5 / 2)"} -> 2
      [] operand \in {"3", "3.5"} -> 6
      [] operand = "4" -> 24
      [] operand = "5" -> 120

\* C6 as stated: an operand followed by `!` parses and evaluates to the
\* product of the integers from 2 up to the operand; `out = 3.5!` yields 6
\* and `out = (-2)!` yields 1.
C6_PostfixFactorial ==
    text \in PostfixFactorialTexts =>
        /\ phase # "thrown"
        /\ Returned => getOutput(scope) = Integer(ProductUpTo(PostfixOperand(text)))

\* C6, amended: `!` before its operand parses and evaluates to the product
\* of the integers from 2 up to the operand (`out = !3.5` yields 6,
\* `out = !(-2)` yields 1); `!` after an operand is a syntax error, an ID
\* being expected where the `!` stands.
C6_PrefixFactorial ==
    /\ text \in PrefixFactorialTexts =>
          /\ phase # "thrown"
          /\ Parsed => OutIs(FactorialExpr(assignList[1].expr.factor))
          /\ Returned => getOutput(scope) = Integer(ProductUpTo(PrefixOperand(text)))
    /\ text \in PostfixFactorialTexts =>
          /\ ~Parsed
          /\ phase = "thrown" => error = SyntaxError("ID", "FACTORIAL")

C6_Witness ==
    /\ Returned
    /\ text = "out = !3.5"
    /\ getOutput(scope) = Integer(6)

-----------------------------------------------------------------------------
\* The tokens of a text up to its end or to the first character without a
\* token.
RECURSIVE TokensFrom(_, _)
TokensFrom(txt, cursor) ==
    LET r == nextToken(txt, cursor)
    IN  IF r.error # NoError \/ r.token.type = "EOF" THEN <<>>
        ELSE <<r.token>> \o TokensFrom(txt, r.cursor)

Tokens(txt) == TokensFrom(txt, 0)

\* The NUMBER tokens that stand right after the last token of a factor.
NumbersAfterFactor(toks) ==
    {k \in 2..Len(toks) : /\ toks[k].type = "NUMBER"
                          /\ toks[k - 1].type \in {"NUMBER", "ID", "RPAREN"}}

RECURSIVE CountMult(_)
CountMult(ast) ==
    CASE ast.kind \in {"ValueExpr", "RefExpr"} -> 0
      [] ast.kind = "UnaryExpr" -> CountMult(ast.expr)
      [] ast.kind = "FactorialExpr" -> CountMult(ast.factor)
      [] ast.kind = "AssignExpr" -> CountMult(ast.expr)
      [] ast.kind = "BinaryExpr" ->
            CountMult(ast.left) + CountMult(ast.right)
            + (IF ast.token = "MULT" THEN 1 ELSE 0)

RECURSIVE CountMultAll(_)
CountMultAll(stmts) ==
    IF Len(stmts) = 0 THEN 0 ELSE CountMult(Head(stmts)) + CountMultAll(Tail(stmts))

\* Every multiplication node of the tree has a literal as its left operand.
RECURSIVE MultAfterLiteralOnly(_)
MultAfterLiteralOnly(ast) ==
    CASE ast.kind \in {"ValueExpr", "RefExpr"} -> TRUE
      [] ast.kind = "UnaryExpr" -> MultAfterLiteralOnly(ast.expr)
      [] ast.kind = "FactorialExpr" -> MultAfterLiteralOnly(ast.factor)
      [] ast.kind = "AssignExpr" -> MultAfterLiteralOnly(ast.expr)
      [] ast.kind = "BinaryExpr" ->
            /\ MultAfterLiteralOnly(ast.left)
            /\ MultAfterLiteralOnly(ast.right)
            /\ ast.token = "MULT" => ast.left.kind = "ValueExpr"

StarFree(txt) == "*" \notin CharsOf(txt)

XIs(tree) == assignList = <<AssignExpr(Token("ID", "x"), tree)>>

ImplicitExamples ==
    /\ text = "x = 2 3" =>
          /\ phase # "thrown"
          /\ Parsed => XIs(BinaryExpr(ValueExpr("2"), "MULT", ValueExpr("3")))
    /\ text = "x = 2pi" =>
          /\ ~Parsed
          /\ phase = "thrown" => error = SyntaxError("ASSIGN", "EOF")
    /\ text = "x = 2(3)" =>
          /\ ~Parsed
          /\ phase = "thrown" => error = SyntaxError("ID", "LPAREN")

\* C7 as stated: a multiplication node is synthesized only when a NUMBER
\* literal is immediately followed by a NUMBER token, so in a text without
\* `*` every multiplication node has a literal on its left; `x = 2 3` is
\* 2 * 3, `x = 2pi` and `x = 2(3)` are syntax errors.
C7_ImplicitOnlyAfterLiteral ==
    /\ (ParseReturned /\ StarFree(text)) =>
          \A k \in 1..Len(assignList) : MultAfterLiteralOnly(assignList[k])
    /\ ImplicitExamples

\* C7, amended: a multiplication node is synthesized when, and only when,
\* a factor of any kind (a literal, a reference, a parenthesized expression,
\* a signed or factorial factor) is immediately followed by a NUMBER token:
\* a parsed text without `*` has one multiplication node per NUMBER token
\* that follows the last token of a factor; `x = 2 3` is 2 * 3 and
\* `x = pi 2` is pi * 2, `x = 2pi` and `x = 2(3)` are syntax errors.
C7_ImplicitAfterAnyFactor ==
    /\ (ParseReturned /\ StarFree(text)) =>
          CountMultAll(assignList) = Cardinality(NumbersAfterFactor(Tokens(text)))
    /\ ImplicitExamples
    /\ text = "x = pi 2" =>
          /\ phase # "thrown"
          /\ Parsed => XIs(BinaryExpr(RefExpr(Token("ID", "pi")), "MULT", ValueExpr("2")))
    /\ text = "x = (1) 2" =>
          /\ phase # "thrown"
          /\ Parsed => XIs(BinaryExpr(ValueExpr("1"), "MULT", ValueExpr("2")))
    /\ text = "x = !3 2" =>
          /\ phase # "thrown"
          /\ Parsed => XIs(BinaryExpr(FactorialExpr(ValueExpr("3")), "MULT", ValueExpr("2")))

C7_Witness ==
    /\ Parsed
    /\ text = "x = pi 2"
    /\ XIs(BinaryExpr(RefExpr(Token("ID", "pi")), "MULT", ValueExpr("2")))

-----------------------------------------------------------------------------
\* The identifiers that stand right before an `=`, in the order of the text.
RECURSIVE TargetsOf(_)
TargetsOf(toks) ==
    IF Len(toks) < 2 THEN <<>>
    ELSE IF toks[1].type = "ID" /\ toks[2].type = "ASSIGN"
    THEN <<toks[1]>> \o TargetsOf(Tail(toks))
    ELSE TargetsOf(Tail(toks))

\* The root's children are assignments, one per target, in source order.
AssignmentsInOrder ==
    /\ \A k \in 1..Len(assignList) : assignList[k].kind = "AssignExpr"
    /\ [k \in 1..Len(assignList) |-> assignList[k].id] = TargetsOf(Tokens(text))

\* The parser is at the first token of a statement.
AtStatement == phase = "parsing" /\ currentToken.type # "EOF"

Lookahead == nextToken(text, lexCursor)

NextIsAssign == Lookahead.error = NoError /\ Lookahead.token.type = "ASSIGN"

\* C8 as stated: parse() fails with a syntax error or returns a
\* StatementListExpr of AssignExpr nodes in source order, and a statement
\* that does not begin with an identifier followed by `=` is rejected with
\* a syntax error.
C8_ParseRejectsWithSyntaxError ==
    /\ [](ParseReturned => AssignmentsInOrder)
    /\ [][(phase = "parsing" /\ phase' = "thrown") => error'.kind = "SyntaxError"]_vars
    /\ [][(AtStatement /\ ~(currentToken.type = "ID" /\ NextIsAssign))
          => (phase' = "thrown" /\ error'.kind = "SyntaxError")]_vars

\* C8, amended: parse() fails with a syntax error, or with the lexer's
\* error at a character that begins no token, or returns a
\* StatementListExpr of AssignExpr nodes in source order; a statement whose
\* first token is not an identifier, or whose identifier is followed by a
\* token other than `=`, is rejected with the syntax error naming the
\* expected and the actual token kind, and one whose identifier is followed
\* by a character that begins no token, as in `x @ = 1`, is rejected with
\* the lexer's error at that character.
C8_ParseRejectsNonAssignments ==
    /\ [](ParseReturned => AssignmentsInOrder)
    /\ [][(phase = "parsing" /\ phase' = "thrown") =>
             \/ error'.kind = "SyntaxError"
             \/ /\ error'.kind = "LexError"
                /\ error'.char = charAt(text, error'.at)
                /\ nextToken(error'.char, 0).error # NoError]_vars
    /\ [][(AtStatement /\ currentToken.type # "ID")
          => (phase' = "thrown" /\ error' = SyntaxError("ID", currentToken.type))]_vars
    /\ [][(AtStatement /\ currentToken.type = "ID" /\ Lookahead.error = NoError
                       /\ Lookahead.token.type # "ASSIGN")
          => (phase' = "thrown" /\ error' = SyntaxError("ASSIGN", Lookahead.token.type))]_vars
    /\ [][(AtStatement /\ currentToken.type = "ID" /\ Lookahead.error # NoError)
          => (phase' = "thrown" /\ error' = Lookahead.error)]_vars
    /\ [](text = "x @ = 1" /\ phase = "thrown" => error = LexError("@", 2))

C8_Witness ==
    /\ phase = "thrown"
    /\ \/ text = "x @ = 1" /\ error = LexError("@", 2)
       \/ text = "2 + 3" /\ error = SyntaxError("ID", "NUMBER")
       \/ text = ";;" /\ error = SyntaxError("ID", "SEMICOLON")
       \/ text = "\nx = 1" /\ error = SyntaxError("ID", "EOL")

-----------------------------------------------------------------------------
Targets(k) == {assignList[j].id.value : j \in 1..k}

\* C9 as stated: when a statement fails with the undefined-symbol error,
\* the symbol table holds no binding made by the statements before it and
\* getOutput yields no value.
C9_FailureLeavesNothing ==
    ThrownBy("UndefinedSymbolError") =>
        /\ scope = initialScope
        /\ getOutput(scope) = Undefined

\* C9, amended: when statement k fails with the undefined-symbol error the
\* traversal stops there; the symbol table keeps the bindings made by
\* statements 1..k-1 of the failed call, and getOutput yields the value one
\* of them assigned to out, if any did.
C9_FailureKeepsEarlierBindings ==
    ThrownBy("UndefinedSymbolError") =>
        /\ Started = Completed + 1
        /\ error.name \notin DOMAIN scope
        /\ DOMAIN scope = {"pi", "e"} \cup Targets(Completed)
        /\ text \in SequentialTexts => scope \in ScopeAfter(assignList, Completed)
        /\ (getOutput(scope) = Undefined) = ("out" \notin Targets(Completed))

C9_Witness ==
    /\ ThrownBy("UndefinedSymbolError")
    /\ text = "out = 1; y = z; out = 2"
    /\ getOutput(scope) = Integer(1)
    /\ Completed = 1

-----------------------------------------------------------------------------
\* The interpreter is one synchronous call: it takes its next step whenever
\* it has one.
TerminationTexts ==
    PrefixFactorialTexts
    \cup {"out = !(1/0)", "x = -2; out = x + 3 * 2", "out = 2 ^ 3 - 1; y = out / 2",
          "out = 1; y = z; out = 2", "2 + 3", "x = 2 @", ""}

FairInit == Start(TerminationTexts)

FairSpec == FairInit /\ [][Next]_vars /\ WF_vars(Next)

\* C10: every interpret call terminates, with a result or an error.
C10_InterpretTerminates == <>(phase \in {"returned", "thrown"})

-----------------------------------------------------------------------------
\* interpret returned with the printer as its visitor.
PrinterReturned == visitor = "ASTPrinterVisitor" /\ phase = "returned"

\* The nodes of a tree.
RECURSIVE NodesOf(_)
NodesOf(ast) ==
    {ast} \cup
    CASE ast.kind \in {"ValueExpr", "RefExpr"} -> {}
      [] ast.kind \in {"UnaryExpr", "AssignExpr"} -> NodesOf(ast.expr)
      [] ast.kind = "FactorialExpr" -> NodesOf(ast.factor)
      [] ast.kind = "BinaryExpr" -> NodesOf(ast.left) \cup NodesOf(ast.right)

\* The nodes of a kind in the parsed program.
ProgramNodes(kind) ==
    {n \in UNION {NodesOf(assignList[k]) : k \in 1..Len(assignList)} : n.kind = kind}

\* The string the printer leaves on its stack for a node.
Rendered(node) == popValue(printerAccept(node, <<>>))

Wrapped(str) == "(" \o str \o ")"

\* The printer's stack holds the rendering of each statement, in order.
StatementsRendered ==
    stack = [k \in 1..Len(assignList) |-> Rendered(assignList[k]) \o "<br>"]

RenderedLeft(b) ==
    IF leftOperandBare(b) THEN Rendered(b.left) ELSE Wrapped(Rendered(b.left))

\* The right operands the spec leaves without parentheses.
RightBareAsStated(b) ==
    \/ b.right.kind \in {"ValueExpr", "FactorialExpr", "RefExpr"}
    \/ b.token = "POW"
    \/ b.right.kind = "BinaryExpr" /\ b.right.token \in {"DIVI", b.token}

\* C11 as stated: the right operand of a binary node is printed without
\* parentheses if and only if it is a literal, a factorial, a reference, the
\* parent operator is exponentiation, or it is a binary node whose operator
\* is division or the parent's; every other right operand, as the
\* exponentiation of `x = 2 * 3 ^ 4` or a unary node, is in parentheses.
C11_RightOperandBareAsStated ==
    PrinterReturned =>
        /\ StatementsRendered
        /\ \A b \in ProgramNodes("BinaryExpr") :
              Rendered(b) =
                  printerResolve(b.token, RenderedLeft(b),
                                 IF RightBareAsStated(b) THEN Rendered(b.right)
                                 ELSE Wrapped(Rendered(b.right)))
        /\ text = "x = 2 * 3 ^ 4" => stack = <<"x = 2 &times; (3<sup>4</sup>)<br>">>

\* C11, amended: the right operand of a binary node is printed without
\* parentheses if and only if it is a literal, a factorial, a reference, the
\* parent operator is exponentiation, or it is a binary node whose operator
\* is division, exponentiation or the parent's; every other right operand
\* (a unary node, a sum under a product) is in parentheses.  `x = 2 * 3 ^ 4`
\* prints 2 &times; 3<sup>4</sup>, `x = 3*(1+2)` keeps its parentheses and
\* `x = 2^3^4` has none.
C11_RightOperandBare ==
    PrinterReturned =>
        /\ StatementsRendered
        /\ \A b \in ProgramNodes("BinaryExpr") :
              Rendered(b) =
                  printerResolve(b.token, RenderedLeft(b),
                                 IF \/ RightBareAsStated(b)
                                    \/ b.right.kind = "BinaryExpr" /\ b.right.token = "POW"
                                 THEN Rendered(b.right)
                                 ELSE Wrapped(Rendered(b.right)))
        /\ text = "x = 2 * 3 ^ 4" => stack = <<"x = 2 &times; 3<sup>4</sup><br>">>
        /\ text = "x = 2 + 3 ^ 4" => stack = <<"x = 2 &plus; 3<sup>4</sup><br>">>
        /\ text = "x = 3*(1+2)" => stack = <<"x = 3 &times; (1 &plus; 2)<br>">>
        /\ text = "x = 2^3^4" => stack = <<"x = 2<sup>3<sup>4</sup></sup><br>">>
        /\ text = "x = 2 * -3" => stack = <<"x = 2 &times; (&minus;3)<br>">>

C11_Witness ==
    /\ PrinterReturned
    /\ text = "x = 2 * 3 ^ 4"
    /\ printerGetOutput(stack) = "x = 2 &times; 3<sup>4</sup><br>"

-----------------------------------------------------------------------------
\* The operands the spec leaves without parentheses under a sign or a
\* factorial.
OperandBareAsStated(operand) ==
    operand.kind \in {"ValueExpr", "RefExpr", "FactorialExpr"}

SignOf(unaryExpr) == IF unaryExpr.opToken = "MINUS" THEN "&minus;" ELSE ""

\* C12: the operand of a unary-sign node and of a factorial node is printed
\* without parentheses exactly when it is a literal, a reference or a
\* factorial, and in parentheses otherwise, by the same rule for both kinds
\* of node: `x = -pi` prints the constant bare, as `x = !pi` does.
C12_SignAndFactorialOperands ==
    PrinterReturned =>
        /\ \A u \in ProgramNodes("UnaryExpr") :
              Rendered(u) = SignOf(u) \o (IF OperandBareAsStated(u.expr)
                                          THEN Rendered(u.expr)
                                          ELSE Wrapped(Rendered(u.expr)))
        /\ \A f \in ProgramNodes("FactorialExpr") :
              Rendered(f) = "!" \o (IF OperandBareAsStated(f.factor)
                                    THEN Rendered(f.factor)
                                    ELSE Wrapped(Rendered(f.factor)))
        /\ text = "x = -pi" => stack = <<"x = &minus;&pi;<br>">>
        /\ text = "x = !pi" => stack = <<"x = !&pi;<br>">>

-----------------------------------------------------------------------------
(* The lexer driven by itself: new Lexer(text), then its public methods
   nextToken() and advance() called in any order.  `tokens` is the tokens
   nextToken() returned, `advanceCalls` the number of the caller's calls of
   advance() *)

MaxCallsAtEnd == 3

MaxAdvances == 2

LexerLexemes == {"x", "x1", "2", "=", "\n", " ", ";", "@"}

\* Every text of up to MaxLexemes pieces written one after the other, and
\* the examples.
LexerTexts ==
    {Join(ls, "") : ls \in SeqsUpTo(LexerLexemes, MaxLexemes)} \cup ExampleTexts

\* new Lexer(text)
LexerInit ==
    /\ text \in LexerTexts
    /\ visitor = "none"
    /\ tokens = <<>>
    /\ advanceCalls = 0
    /\ phase = "lexing"
    /\ lexCursor = 0
    /\ currentToken = Token("EOF", undefined)
    /\ assignList = <<>>
    /\ frames = <<>>
    /\ scope = initialScope
    /\ stack = <<>>
    /\ output = Integer(0)
    /\ error = NoError

EOFReturned == tokens # <<>> /\ tokens[Len(tokens)].type = "EOF"

\* The calls that returned EOF, as far as `tokens` records them.
CallsAtEnd == Cardinality({k \in 1..Len(tokens) : tokens[k].type = "EOF"})

\* The tokens returned so far, after one more.  The record stops at its
\* MaxCallsAtEnd-th EOF: a call that returns EOF after that changes nothing
\* the model keeps, and stays possible for ever.
Recorded(token) ==
    IF token.type = "EOF" /\ CallsAtEnd >= MaxCallsAtEnd
    THEN tokens
    ELSE Append(tokens, token)

\* lexer.nextToken() returns a token.
NextTokenReturn ==
    /\ phase = "lexing"
    /\ nextToken(text, lexCursor).error = NoError
    /\ tokens' = Recorded(nextToken(text, lexCursor).token)
    /\ lexCursor' = nextToken(text, lexCursor).cursor
    /\ UNCHANGED <<text, visitor, advanceCalls, phase, currentToken, assignList,
                   frames, scope, stack, output, error>>

\* lexer.nextToken() throws at a character that begins no token.
NextTokenThrow ==
    /\ phase = "lexing"
    /\ nextToken(text, lexCursor).error # NoError
    /\ error' = nextToken(text, lexCursor).error
    /\ lexCursor' = nextToken(text, lexCursor).cursor
    /\ phase' = "thrown"
    /\ UNCHANGED <<text, visitor, tokens, advanceCalls, currentToken, assignList,
                   frames, scope, stack, output>>

\* lexer.advance(), called by the caller: this.lexCursor++, wherever the
\* cursor is, at the end of the text and past it as well.
Advance ==
    /\ phase = "lexing"
    /\ advanceCalls < MaxAdvances
    /\ lexCursor' = lexCursor + 1
    /\ advanceCalls' = advanceCalls + 1
    /\ UNCHANGED <<text, visitor, tokens, phase, currentToken, assignList,
                   frames, scope, stack, output, error>>

LexerNext == NextTokenReturn \/ NextTokenThrow \/ Advance

LexerSpec == LexerInit /\ [][LexerNext]_vars

TypesOf(toks) == [k \in 1..Len(toks) |-> toks[k].type]

NewlinesIn(txt) == Cardinality({k \in 0..(Len(txt) - 1) : charAt(txt, k) = "\n"})

TokensOfType(type) == Cardinality({k \in 1..Len(tokens) : tokens[k].type = type})

\* The caller has called nextToken() only, as the parser does.
NextTokenOnly == advanceCalls = 0

\* C13: skipping blanks stops at a newline, so that when the lexer has
\* reached the end of a text it has returned exactly one EOL token for each
\* newline in it, and the tokens of `x = 1 \ny = 2` have an EOL between the
\* two statements.
C13_EveryNewlineIsOneEOL ==
    (phase = "lexing" /\ EOFReturned /\ NextTokenOnly) =>
        /\ TokensOfType("EOL") = NewlinesIn(text)
        /\ text = "x = 1 \ny = 2" /\ CallsAtEnd = 1 =>
              TypesOf(tokens) = <<"ID", "ASSIGN", "NUMBER", "EOL",
                                  "ID", "ASSIGN", "NUMBER", "EOF">>

IsLetter(c) == c \in CharsOf(LowerLetters) \cup CharsOf(UpperLetters)

IsLetterOrDigit(c) == IsLetter(c) \/ c \in CharsOf(DigitChars)

\* The longest run of letters and digits that starts the text.
LeadingIdentifier(txt) ==
    LET stop == CHOOSE j \in 0..Len(txt) :
                    /\ \A k \in 0..(j - 1) : IsLetterOrDigit(charAt(txt, k))
                    /\ j < Len(txt) => ~IsLetterOrDigit(charAt(txt, j))
    IN  SubSeq(txt, 1, stop)

\* C14: a letter followed by letters and digits is one identifier token, the
\* whole run: the first token of a text that starts with a letter is the
\* identifier spelled by its longest leading run of letters and digits
\* (pi and e in the lower case), and the first token of `x1 = 2` is the
\* identifier x1.
C14_IdentifierIsMaximalRun ==
    (Len(tokens) = 1 /\ NextTokenOnly /\ Len(text) > 0 /\ IsLetter(charAt(text, 0))) =>
        /\ tokens[1].type = "ID"
        /\ tokens[1].value =
              (IF toLowerCase(LeadingIdentifier(text)) \in {"pi", "e"}
               THEN toLowerCase(LeadingIdentifier(text))
               ELSE LeadingIdentifier(text))
        /\ text = "x1 = 2" => tokens[1] = Token("ID", "x1")

\* A call of nextToken made after a call that returned EOF returns EOF
\* again, without an error, and leaves the cursor where it was.
EOFAgain ==
    /\ tokens' = Append(tokens, Token("EOF", undefined))
    /\ lexCursor' = lexCursor
    /\ error' = NoError
    /\ phase' = "lexing"

\* C15 as stated: EOF is terminal for the lexer. Once nextToken has
\* returned EOF, every later call returns EOF again, never a token of
\* another kind and never an error, and the cursor no longer moves: it stays
\* at the end of the text, where EOF was returned, and no token of another
\* kind follows an EOF.
C15_CursorRestsAfterEOF ==
    /\ [][EOFReturned => EOFAgain]_vars
    /\ [](EOFReturned => lexCursor = Len(text) /\ error = NoError)
    /\ [](\A j \in 1..Len(tokens), k \in 1..Len(tokens) :
              (j < k /\ tokens[j].type = "EOF") => tokens[k].type = "EOF")

\* A call of advance() made after a call of nextToken that returned EOF
\* moves the cursor one place further and does nothing else.
AdvanceAtEnd ==
    /\ advanceCalls' = advanceCalls + 1
    /\ lexCursor' = lexCursor + 1
    /\ tokens' = tokens
    /\ error' = NoError
    /\ phase' = "lexing"

\* C15, amended: EOF is terminal for nextToken. Once nextToken has returned
\* EOF, every later call of it returns EOF again, never a token of another
\* kind and never an error, and no call of nextToken moves the cursor, which
\* is at the end of the text or past it; only the caller's own calls of
\* advance() still move the cursor, one place further past the end each,
\* and nextToken returns EOF from there as well.
C15_EOFIsTerminal ==
    /\ [][EOFReturned => (EOFAgain /\ advanceCalls' = advanceCalls) \/ AdvanceAtEnd]_vars
    /\ [](EOFReturned => lexCursor >= Len(text) /\ error = NoError)
    /\ [](EOFReturned /\ NextTokenOnly => lexCursor = Len(text))
    /\ [](\A j \in 1..Len(tokens), k \in 1..Len(tokens) :
              (j < k /\ tokens[j].type = "EOF") => tokens[k].type = "EOF")

\* EOF, a call of advance() past the end, and EOF twice more from there.
C15_Witness ==
    /\ phase = "lexing"
    /\ text = "x=2\n"
    /\ TypesOf(tokens) = <<"ID", "ASSIGN", "NUMBER", "EOL", "EOF", "EOF", "EOF">>
    /\ advanceCalls = 1
    /\ lexCursor = Len(text) + 1

-----------------------------------------------------------------------------
\* What a visitor object holds before any of its visit methods has run.
Unvisited ==
    /\ frames = <<>>
    /\ stack = <<>>
    /\ scope = initialScope
    /\ output = IF visitor = "ASTPrinterVisitor" THEN "" ELSE Integer(0)

\* The parser has read the text to its end.
WholeTextParsed ==
    /\ currentToken.type = "EOF"
    /\ lexCursor = Len(text)
    /\ error.kind \notin {"SyntaxError", "LexError"}

\* C16: the whole text is lexed and parsed before any node is visited. While
\* interpret is parsing the visitor is untouched; the traversal begins only
\* when the parser has read the text to its end; and when any statement has
\* a lexical or a syntax error interpret fails before the first visit, with
\* the evaluator's symbol table holding pi and e only and the printer's
\* stack empty.
C16_ParsedBeforeVisited ==
    /\ [](phase \in {"new", "parsing"} => Unvisited)
    /\ [](~Unvisited => WholeTextParsed)
    /\ []((ThrownBy("SyntaxError") \/ ThrownBy("LexError")) => Unvisited)
    /\ [][frames = <<>> /\ frames' # <<>> =>
            phase = "parsing" /\ WholeTextParsed /\ Unvisited]_vars

C16_Witness ==
    /\ visitor = "ASTPrinterVisitor"
    /\ text = "x = 1; y = (2"
    /\ ThrownBy("SyntaxError")
    /\ Len(assignList) = 1
    /\ printerGetOutput(stack) = ""

-----------------------------------------------------------------------------
\* The largest operand whose factorial is computed here.
MaxOperand == 7

\* 1 for n < 2, and 2 * 3 * ... * n for n >= 2.
RECURSIVE Factorial(_)
Factorial(n) == IF n < 2 THEN 1 ELSE n * Factorial(n - 1)

\* The integer that the double a is, cut to 2^30 in size.
IntegerValue(a) ==
    IF topBit(a) > 2 * LimbBits THEN a.s * 2 ^ (2 * LimbBits)
    ELSE a.s * intOfNat(natShiftLeft(a.m, a.e))

AtMost(a, n) == lessOrEqual(a, Integer(n))

\* factorial(num) returns to visitFactorialExpr.
FactorialReturns ==
    /\ Resuming("factorial")
    /\ frames' = SubSeq(frames, 1, Len(frames) - 2)

\* C17: the factorial of an integer n is 1 for n < 2 (0, 1 and the negative
\* integers among them) and 2 * 3 * ... * n for n >= 2; it is never an
\* error. Each call of factorial with an integer argument returns, and the
\* value pushed is that product.
C17_FactorialOfInteger ==
    /\ [][(Resuming("factorial") /\ IsInteger(Top.num)) =>
              /\ error' = NoError /\ phase' # "thrown"
              /\ (FactorialReturns /\ AtMost(Top.num, MaxOperand)) =>
                    stack' = Append(stack, Integer(Factorial(IntegerValue(Top.num))))]_vars
    /\ []((Resuming("factorial") /\ IsInteger(Top.num) /\ AtMost(Top.num, MaxOperand)) =>
              /\ IsInteger(Top.i)
              /\ IntegerValue(Top.i) <= IntegerValue(Top.num) + 1 \/ Top.i = Integer(2)
              /\ Top.val = Integer(Factorial(IntegerValue(Top.i) - 1)))

C17_Witness ==
    /\ Returned
    /\ text = "out = !(-2)"
    /\ getOutput(scope) = Integer(1)
    /\ assignList[1].expr.kind = "FactorialExpr"

-----------------------------------------------------------------------------
\* The visit methods that resume after a child's accept with a pop.
PoppingMethods ==
    {"visitAssignExpr", "visitUnaryExpr", "visitFactorialExpr", "visitBinaryExpr"}

\* A step in which a visit method of the evaluator returns to its caller.
VisitReturns == phase = "visiting" /\ Len(frames') < Len(frames)

\* C18: the evaluator's stack discipline. A visit of an expression node
\* begins on an empty stack and leaves exactly one value on it, which the
\* parent's visit method pops when it resumes, so a pop never finds the
\* stack empty; a visit of an assignment leaves the stack as it found it;
\* the stack is empty before and after every statement and when the
\* traversal has returned.
C18_StackDiscipline ==
    /\ [](visitor = "ASTCalculatorVisitor" /\ phase = "visiting" /\ frames # <<>> =>
              Len(stack) = (IF Top.m \in PoppingMethods THEN 1 ELSE 0))
    /\ [](visitor = "ASTCalculatorVisitor" /\ phase \in {"new", "parsing", "returned"} =>
              stack = <<>>)
    /\ [][visitor = "ASTCalculatorVisitor" /\ VisitReturns =>
              Len(stack') = (IF Top.m \in {"visitAssignExpr", "forEach"} THEN 0 ELSE 1)]_vars
    /\ [][visitor = "ASTCalculatorVisitor" /\ stack' # stack /\ Len(stack') <= Len(stack) =>
              stack # <<>> /\ Top.m \in PoppingMethods]_vars

C18_Witness ==
    /\ text = "out = (1 - 2) - 3"
    /\ Resuming("visitBinaryExpr")
    /\ Top.at = "right"
    /\ Len(frames) = 4
    /\ Top.left = Integer(1)
    /\ stack = <<Integer(2)>>

-----------------------------------------------------------------------------
\* The one statement of a single-statement text, as the parser builds it.
StatementOf(txt) == declaration(newParser(txt)).ast

\* What the printer renders for a single-statement text, and the values
\* the evaluator may compute for it.
PrintedOf(txt) == Rendered(StatementOf(txt)) \o "<br>"

ValueOfText(txt) == ValueOf(StatementOf(txt).expr, initialScope)

\* C19: printing is faithful to evaluation. Two single-statement programs
\* over numeric literals that the printer renders alike have the same
\* value: a program that evaluated to a value differs in its rendering from
\* every program with another value, and `out = (1 - 2) - 3` is not
\* rendered as `out = 1 - 2 - 3` is.
C19_PrintingIsFaithful ==
    (Returned /\ text \in GroupedTexts) =>
        /\ getOutput(scope) \in ValueOfText(text)
        /\ \A other \in GroupedTexts :
              PrintedOf(other) = PrintedOf(text) => getOutput(scope) \in ValueOfText(other)
        /\ text = "out = (1 - 2) - 3" => PrintedOf("out = 1 - 2 - 3") # PrintedOf(text)
====
